---- MODULE Spec2Model ----
(***************************************************************************)
(* Model of the portfolio computation engine of fidelity-total-return.    *)
(*                                                                         *)
(* CSV cells are JavaScript strings.  A string is modelled as a sequence  *)
(* of one-character strings (<<"$", "A">> is "$A"), so that trimming,      *)
(* upper-casing, prefix tests and the symbol patterns are computed the    *)
(* way the code computes them.  A row is a function from column names to  *)
(* cells; a column the export does not have is absent from its DOMAIN.    *)
(* Date cells are modelled by what new Date(cell) makes of them: a day    *)
(* number >= 1 for a cell that parses, EmptyCell for "", BadDate for text *)
(* that yields an invalid Date.  Numbers are integers (whole shares and   *)
(* whole dollars): every numeral of the input pools is an integer.        *)
(***************************************************************************)
EXTENDS Integers, Sequences, FiniteSets, TLC

VARIABLES activityRows, positionRows, model, phase,
          marketValues, cashflows, dayIndex, unitPrice, unitCount, nav, units,
          divisors, twr, seriesPhase,
          market, today, currentPrices, priceHistory, performance, perfPhase,
          uploadsDir, positionsDir, inflight, responses,
          CACHE, HISTORY_CACHE, clock, historyFetchedAt, served, requested, lookups,
          xirrFlows, attempts, high, bisected, rootAt, fLow, fHigh, iterations, irr,
          xirrPhase,
          symbolLedger, dateIndex, priceSeriesRaw, symbolQuote, sharesSeries,
          priceSeries, cashflowSeries, marketValueSeries, timelinePhase

\* The ledger builder and the reconciler.
ledgerVars == <<activityRows, positionRows, model, phase>>

\* The unitization engine and the time-weighted return.
seriesVars == <<marketValues, cashflows, dayIndex, unitPrice, unitCount, nav, units,
                divisors, twr, seriesPhase>>

\* A performance computation: the market the providers query, the day of the
\* request, what the two lookups returned, and the result.
perfVars == <<market, today, currentPrices, priceHistory, performance, perfPhase>>

\* The HTTP server: the two upload folders, the /portfolio requests that are
\* awaiting the price lookup, and the responses sent so far.
serverVars == <<uploadsDir, positionsDir, inflight, responses>>

\* The price providers over time: the two caches, the wall clock, and the
\* record of the lookups: when each cached history was fetched, what the
\* latest lookup served from cache, what it asked Yahoo for, and how many
\* lookups there have been.
cacheVars == <<CACHE, HISTORY_CACHE, clock, historyFetchedAt, served, requested, lookups>>

\* computeXirr: the flows, the expansions made and the upper bound they
\* reached, the bisection steps taken (0: high = mid, 1: low = mid), where the
\* root of the NPV lies in the bracket, the signs of the NPV at both ends, the
\* loop counter, and the rate returned.
xirrVars == <<xirrFlows, attempts, high, bisected, rootAt, fLow, fHigh, iterations, irr,
              xirrPhase>>

\* The daily timeline of one symbol: its ledger, the day index, the history
\* and the live quote the providers returned, and the four series built.
timelineVars == <<symbolLedger, dateIndex, priceSeriesRaw, symbolQuote, sharesSeries,
                  priceSeries, cashflowSeries, marketValueSeries, timelinePhase>>

vars == <<ledgerVars, seriesVars, perfVars, serverVars, cacheVars, xirrVars, timelineVars>>

\* What each machine leaves alone.
otherThanLedger ==
  <<seriesVars, perfVars, serverVars, cacheVars, xirrVars, timelineVars>>

otherThanSeries ==
  <<ledgerVars, perfVars, serverVars, cacheVars, xirrVars, timelineVars>>

otherThanPerf ==
  <<seriesVars, serverVars, cacheVars, xirrVars, timelineVars>>

otherThanServer ==
  <<ledgerVars, seriesVars, perfVars, cacheVars, xirrVars, timelineVars>>

otherThanCache ==
  <<ledgerVars, seriesVars, perfVars, serverVars, xirrVars, timelineVars>>

otherThanXirr ==
  <<ledgerVars, seriesVars, perfVars, serverVars, cacheVars, timelineVars>>

otherThanTimeline == <<ledgerVars, seriesVars, perfVars, serverVars, cacheVars, xirrVars>>

---------------------------------------------------------------------------
(* String primitives: String.prototype.trim, toUpperCase, startsWith,      *)
(* includes.                                                               *)

LowerLetters == <<"a","b","c","d","e","f","g","h","i","j","k","l","m",
                  "n","o","p","q","r","s","t","u","v","w","x","y","z">>

UpperLetters == <<"A","B","C","D","E","F","G","H","I","J","K","L","M",
                  "N","O","P","Q","R","S","T","U","V","W","X","Y","Z">>

DigitChars == <<"0","1","2","3","4","5","6","7","8","9">>

Range(f) == {f[i] : i \in DOMAIN f}

SetMin(S) == CHOOSE x \in S : \A y \in S : x <= y

SetMax(S) == CHOOSE x \in S : \A y \in S : x >= y

IsSpace(c) == c \in {" ", "\t", "\n", "\r"}

IsUpper(c) == c \in Range(UpperLetters)

IsDigit(c) == c \in Range(DigitChars)

ToUpperChar(c) ==
  IF c \in Range(LowerLetters)
  THEN UpperLetters[CHOOSE i \in 1..26 : LowerLetters[i] = c]
  ELSE c

ToUpperCase(s) == [i \in 1..Len(s) |-> ToUpperChar(s[i])]

NonSpaceIndexes(s) == {i \in 1..Len(s) : ~IsSpace(s[i])}

TrimTo(s, keep) == IF keep = {} THEN <<>> ELSE SubSeq(s, SetMin(keep), SetMax(keep))

Trim(s) == TrimTo(s, NonSpaceIndexes(s))

StartsWith(s, p) == Len(s) >= Len(p) /\ SubSeq(s, 1, Len(p)) = p

MatchAt(s, p, i) == i >= 1 /\ i + Len(p) - 1 <= Len(s) /\ SubSeq(s, i, i + Len(p) - 1) = p

Includes(s, p) == \E i \in 1..(Len(s) + 1) : MatchAt(s, p, i)

\* /W1\s+W2/i on s: W1, at least one white-space character, W2.
WordsPatternIn(u, w1, w2) ==
  \E i \in 1..Len(u) :
    /\ MatchAt(u, w1, i)
    /\ \E j \in (i + Len(w1) + 1)..Len(u) :
         /\ \A k \in (i + Len(w1))..(j - 1) : IsSpace(u[k])
         /\ MatchAt(u, w2, j)

TestWordsPattern(s, w1, w2) == WordsPatternIn(ToUpperCase(s), w1, w2)

---------------------------------------------------------------------------
(* Record Normalizer: constants and helpers.                               *)

\* The strings the code names, spelled as character sequences.
StrYOU == <<"Y","O","U">>

StrBOUGHT == <<"B","O","U","G","H","T">>

StrSOLD == <<"S","O","L","D">>

StrREINVEST == <<"R","E","I","N","V","E","S","T">>

StrDIVIDEND == <<"D","I","V","I","D","E","N","D">>

StrRECEIVED == <<"R","E","C","E","I","V","E","D">>

StrSPAXX == <<"S","P","A","X","X">>

StrCASH == <<"C","A","S","H">>

StrPENDING == <<"P","E","N","D","I","N","G">>

StrPENDING_ACTIVITY == StrPENDING \o <<" ">> \o <<"A","C","T","I","V","I","T","Y">>

StrMONEY_MARKET == <<"M","O","N","E","Y"," ","M","A","R","K","E","T">>

CASH_TICKERS ==
  { StrSPAXX,
    <<"F","D","R","X","X">>,
    <<"V","M","F","X","X">>,
    <<"S","W","V","X","X">>,
    <<"S","P","R","X","X">>,
    <<"S","N","V","X","X">>,
    <<"F","C","A","S","H">>,
    StrPENDING,
    StrPENDING_ACTIVITY,
    StrCASH }

DATE_CANDIDATES == <<"Run Date", "Date", "Activity Date", "Trade Date", "Settlement Date">>

\* A date cell: "" (falsy), text new Date() cannot parse, or the day it parses to.
EmptyCell == 0

BadDate == -1

\* null for a date (startDate: null); every parsed day is >= 1.
NullDate == 0

\* row[key], with "" standing for undefined where the code writes `row[key] ?? ""`
\* or `row[key] || ""`.
HasCell(row, key) == key \in DOMAIN row

CellOrEmpty(row, key) == IF HasCell(row, key) THEN row[key] ELSE <<>>

BUY_PAT(action) == TestWordsPattern(action, StrYOU, StrBOUGHT)

SELL_PAT(action) == TestWordsPattern(action, StrYOU, StrSOLD)

REINVEST_PAT(action) == Includes(ToUpperCase(action), StrREINVEST)

DIV_PAT(action) == TestWordsPattern(action, StrDIVIDEND, StrRECEIVED)

\* The tests of isCashLike on s and d, the trimmed upper-cased symbol and description.
cashLikeTests(s, d) ==
  IF s = <<>> /\ d = <<>> THEN TRUE
  ELSE IF StartsWith(s, StrSPAXX) THEN TRUE
  ELSE IF s \in CASH_TICKERS THEN TRUE
  ELSE IF Includes(d, StrMONEY_MARKET) \/ Includes(d, StrPENDING_ACTIVITY) THEN TRUE
  ELSE FALSE

isCashLike(symbolRaw, desc) ==
  cashLikeTests(ToUpperCase(Trim(symbolRaw)), ToUpperCase(Trim(desc)))

\* null and "" are both falsy and every caller only tests the result for
\* truthiness before using it, so both are the empty sequence here.
normSymbolOf(s) ==
  IF s = <<>> \/ s \in CASH_TICKERS THEN <<>>
  ELSE IF StartsWith(s, <<"$">>) THEN Tail(s)
  ELSE s

normSymbol(value) == normSymbolOf(ToUpperCase(Trim(value)))

IsSymbolChar(c) == IsUpper(c) \/ IsDigit(c) \/ c = "."

\* n symbol characters, the first a letter, start at s[i].
SymbolRun(s, i, n) ==
  /\ i + n - 1 <= Len(s)
  /\ IsUpper(s[i])
  /\ \A k \in i..(i + n - 1) : IsSymbolChar(s[k])

\* [A-Z][A-Z0-9.]{0,9} is greedy: the longest run of at most 10 characters.
LongestSymbolRun(s, i) ==
  IF \E n \in 1..10 : SymbolRun(s, i, n)
  THEN SetMax({n \in 1..10 : SymbolRun(s, i, n)})
  ELSE 0

\* "(" at s[i], a symbol of n characters, ")".
ParenSymbolAt(s, i, n) ==
  /\ s[i] = "("
  /\ i + n + 1 <= Len(s)
  /\ SymbolRun(s, i + 1, n)
  /\ s[i + n + 1] = ")"

ParenSymbolFrom(s, i) ==
  SubSeq(s, i + 1, i + (CHOOSE n \in 1..10 : ParenSymbolAt(s, i, n)))

\* s.match(SYMBOL_IN_PARENS): the captured group of the leftmost match, <<>> if none.
MatchSymbolInParens(s) ==
  IF \E i \in 1..Len(s) : \E n \in 1..10 : ParenSymbolAt(s, i, n)
  THEN ParenSymbolFrom(s, SetMin({i \in 1..Len(s) : \E n \in 1..10 : ParenSymbolAt(s, i, n)}))
  ELSE <<>>

\* s.match(SYMBOL_FROM_DESC): the captured group, <<>> if no match.
MatchSymbolFromDesc(s) == SubSeq(s, 1, LongestSymbolRun(s, 1))

\* The first truthy of two match results (a.match(P) || d.match(P)).
FirstMatch(x, y) == IF x # <<>> THEN x ELSE y

\* extractSymbol once norm, the parenthesised match and the leading match are known.
symbolFrom(norm, paren, m) ==
  IF norm # <<>> THEN norm
  ELSE IF paren # <<>> THEN normSymbol(paren)
  ELSE IF m # <<>> THEN normSymbol(m)
  ELSE <<>>

symbolFromText(symRaw, d, a) ==
  symbolFrom(normSymbol(symRaw),
             FirstMatch(MatchSymbolInParens(a), MatchSymbolInParens(d)),
             MatchSymbolFromDesc(d))

extractSymbol(symRaw, desc, action) ==
  symbolFromText(symRaw, ToUpperCase(Trim(desc)), ToUpperCase(action))

DigitValue(c) == (CHOOSE i \in 1..10 : DigitChars[i] = c) - 1

RECURSIVE DigitsValue(_)
DigitsValue(ds) ==
  IF ds = <<>> THEN 0
  ELSE 10 * DigitsValue(SubSeq(ds, 1, Len(ds) - 1)) + DigitValue(ds[Len(ds)])

\* parseFloat on integer numerals: leading white space, an optional sign, the
\* longest run of digits; <<>> stands for NaN.  (No pool numeral has a fraction
\* or an exponent.)
DropLeadingSpace(s, keep) == IF keep = {} THEN <<>> ELSE SubSeq(s, SetMin(keep), Len(s))

LeadingDigits(body, stops) ==
  IF stops = {} THEN body ELSE SubSeq(body, 1, SetMin(stops) - 1)

NonDigitIndexes(body) == {i \in 1..Len(body) : ~IsDigit(body[i])}

ParseDigits(digits, negative) ==
  IF digits = <<>> THEN <<>>
  ELSE IF negative THEN << -DigitsValue(digits) >>
  ELSE << DigitsValue(digits) >>

ParseUnsigned(body, negative) ==
  ParseDigits(LeadingDigits(body, NonDigitIndexes(body)), negative)

ParseSigned(t) ==
  IF t # <<>> /\ t[1] \in {"-", "+"}
  THEN ParseUnsigned(Tail(t), t[1] = "-")
  ELSE ParseUnsigned(t, FALSE)

ParseFloat(s) == ParseSigned(DropLeadingSpace(s, NonSpaceIndexes(s)))

StripPunctuation(s) == SelectSeq(s, LAMBDA c : c \notin {"$", ",", "%"})

\* ^\((.*)\)$ turns "(n)" into "-n".
ParensToMinus(s) ==
  IF Len(s) >= 2 /\ s[1] = "(" /\ s[Len(s)] = ")"
  THEN <<"-">> \o SubSeq(s, 2, Len(s) - 1)
  ELSE s

\* Number.isFinite(n) ? n : 0
FiniteOrZero(n) == IF n = <<>> THEN 0 ELSE n[1]

toNumber(val) == FiniteOrZero(ParseFloat(ParensToMinus(StripPunctuation(Trim(val)))))

\* toNumber(row[key]): undefined gives 0.
toNumberCell(row, key) == IF HasCell(row, key) THEN toNumber(row[key]) ELSE 0

Abs(n) == IF n < 0 THEN -n ELSE n

\* Mutant: no row is dropped.
dedupeKeepsAll(rows) == rows

RECURSIVE dedupeFrom(_, _, _)
dedupeFrom(rows, i, out) ==
  IF i > Len(rows) THEN out
  ELSE dedupeFrom(rows, i + 1,
                  IF rows[i] \in Range(out) THEN out ELSE Append(out, rows[i]))

dedupe(rows) == dedupeFrom(rows, 1, <<>>)

RECURSIVE extractDateFrom(_, _)
extractDateFrom(row, k) ==
  IF k > Len(DATE_CANDIDATES) THEN NullDate
  ELSE IF /\ HasCell(row, DATE_CANDIDATES[k])
          /\ row[DATE_CANDIDATES[k]] # EmptyCell
          /\ row[DATE_CANDIDATES[k]] # BadDate
       THEN row[DATE_CANDIDATES[k]]
       ELSE extractDateFrom(row, k + 1)

extractDate(row) == extractDateFrom(row, 1)

classifyAction(action) ==
  IF action = <<>> THEN "other"
  ELSE IF DIV_PAT(action) THEN "dividend"
  ELSE IF REINVEST_PAT(action) THEN "reinvest"
  ELSE IF SELL_PAT(action) THEN "sell"
  ELSE IF BUY_PAT(action) THEN "buy"
  ELSE "other"

---------------------------------------------------------------------------
(* Ledger Builder: parseActivity.                                          *)

\* a || b || c || d on numbers: the first that is not 0, else the last.
FirstNonZero(a, b, c, d) ==
  IF a # 0 THEN a ELSE IF b # 0 THEN b ELSE IF c # 0 THEN c ELSE d

\* Mutant: the quantity keeps the sign the export gave it.
rowQtySigned(row) == toNumberCell(row, "Quantity")

rowQty(row) == Abs(toNumberCell(row, "Quantity"))

rowAmount(row) ==
  Abs(FirstNonZero(toNumberCell(row, "Amount ($)"),
                   toNumberCell(row, "Amount"),
                   toNumberCell(row, "Net Amount"),
                   toNumberCell(row, "Net Amount ($)")))

rowSymbol(row) ==
  extractSymbol(CellOrEmpty(row, "Symbol"), CellOrEmpty(row, "Description"),
                CellOrEmpty(row, "Action"))

\* The early returns of the forEach body: no symbol or cash-like, an action that
\* classifies as other, no valid date.
rowRetained(row) ==
  /\ rowSymbol(row) # <<>>
  /\ ~isCashLike(CellOrEmpty(row, "Symbol"), CellOrEmpty(row, "Description"))
  /\ classifyAction(CellOrEmpty(row, "Action")) # "other"
  /\ extractDate(row) # NullDate

\* The switch on eventType, one operator per field it assigns.
eventSharesDelta(eventType, qty) ==
  CASE eventType = "buy" -> qty
    [] eventType = "sell" -> -qty
    [] eventType = "reinvest" -> qty
    [] OTHER -> 0

eventCashFlow(eventType, amount) ==
  CASE eventType = "buy" -> -amount
    [] eventType = "sell" -> amount
    [] eventType = "dividend" -> amount
    [] OTHER -> 0

eventDividendAmount(eventType, amount) ==
  IF eventType \in {"dividend", "reinvest"} THEN amount ELSE 0

\* The event object; tradePrice amount / qty is kept as the pair <<amount, qty>>,
\* <<>> is null.
makeEvent(date, action, eventType, index, qty, amount, desc) ==
  [ date |-> date,
    action |-> action,
    eventType |-> eventType,
    sequence |-> index,
    sharesDelta |-> eventSharesDelta(eventType, qty),
    cashFlow |-> eventCashFlow(eventType, amount),
    dividendAmount |-> eventDividendAmount(eventType, amount),
    reinvested |-> (eventType = "reinvest"),
    description |-> desc,
    tradePrice |-> IF qty > 0 THEN <<amount, qty>> ELSE <<>> ]

buildEvent(row, index) ==
  makeEvent(extractDate(row), CellOrEmpty(row, "Action"),
            classifyAction(CellOrEmpty(row, "Action")), index,
            rowQty(row), rowAmount(row), CellOrEmpty(row, "Description"))

\* Mutant: a reinvestment sorts ahead of the dividend paid on the same day.
actionOrderReinvestFirst(eventType) ==
  CASE eventType = "dividend" -> 1
    [] eventType = "reinvest" -> 0
    [] eventType = "buy" -> 2
    [] eventType = "sell" -> 3
    [] eventType = "other" -> 4
    [] OTHER -> 9

\* const order = { dividend: 0, reinvest: 1, buy: 2, sell: 3, other: 4 }; ?? 9
actionOrder(eventType) ==
  CASE eventType = "dividend" -> 0
    [] eventType = "reinvest" -> 1
    [] eventType = "buy" -> 2
    [] eventType = "sell" -> 3
    [] eventType = "other" -> 4
    [] OTHER -> 9

\* The comparator handed to events.sort.
compareEvents(a, b) ==
  IF a.date < b.date THEN -1
  ELSE IF a.date > b.date THEN 1
  ELSE IF actionOrder(a.eventType) # actionOrder(b.eventType)
       THEN actionOrder(a.eventType) - actionOrder(b.eventType)
  ELSE a.sequence - b.sequence

RECURSIVE insertSorted(_, _)
insertSorted(sorted, e) ==
  IF sorted = <<>> THEN <<e>>
  ELSE IF compareEvents(e, sorted[1]) < 0 THEN <<e>> \o sorted
  ELSE <<sorted[1]>> \o insertSorted(Tail(sorted), e)

RECURSIVE sortEvents(_)
sortEvents(events) ==
  IF events = <<>> THEN <<>>
  ELSE insertSorted(sortEvents(SubSeq(events, 1, Len(events) - 1)), events[Len(events)])

\* The events pushed for `symbol`, in push order; sequence is the 0-based index
\* of the row among the de-duplicated entries.
RECURSIVE eventsFrom(_, _, _, _)
eventsFrom(entries, symbol, i, pushed) ==
  IF i > Len(entries) THEN pushed
  ELSE IF rowRetained(entries[i]) /\ rowSymbol(entries[i]) = symbol
       THEN eventsFrom(entries, symbol, i + 1, Append(pushed, buildEvent(entries[i], i - 1)))
       ELSE eventsFrom(entries, symbol, i + 1, pushed)

eventsOf(entries, symbol) == eventsFrom(entries, symbol, 1, <<>>)

\* The running totals of the forEach over the sorted events.
foldStart ==
  [ shares |-> 0, shareHistory |-> <<>>, dividendEvents |-> <<>>, cashflows |-> <<>>,
    startDate |-> NullDate, endDate |-> NullDate,
    totalContrib |-> 0, totalWithdrawals |-> 0, dividendsPaid |-> 0 ]

\* Mutant: the share history records the balance before the event.
historySharesBefore(before, after) == before

\* shareHistory.push({ date, shares: after })
historyShares(before, after) == after

\* sharesAtEvent: before
dividendSharesAtEvent(before, after) == before

\* if (event.eventType === "buy") totalContrib += -event.cashFlow
contributionOf(event) == IF event.eventType = "buy" THEN -event.cashFlow ELSE 0

\* Mutant: every incoming cash flow, dividends included, counts as a withdrawal.
withdrawalOfAnyInflow(event) == IF event.cashFlow > 0 THEN event.cashFlow ELSE 0

\* if (event.eventType === "sell") totalWithdrawals += event.cashFlow
withdrawalOf(event) == IF event.eventType = "sell" THEN event.cashFlow ELSE 0

foldStep(acc, event, before, after) ==
  [ shares |-> after,
    shareHistory |->
      Append(acc.shareHistory,
             [date |-> event.date, shares |-> historyShares(before, after)]),
    dividendEvents |->
      IF event.dividendAmount > 0
      THEN Append(acc.dividendEvents,
                  [ date |-> event.date, amount |-> event.dividendAmount,
                    sharesAtEvent |-> dividendSharesAtEvent(before, after),
                    reinvested |-> event.reinvested ])
      ELSE acc.dividendEvents,
    cashflows |->
      Append(acc.cashflows,
             [ date |-> event.date, amount |-> event.cashFlow, type |-> event.eventType,
               description |-> event.description,
               external |-> (event.eventType # "reinvest") ]),
    startDate |-> IF acc.startDate = NullDate \/ event.date < acc.startDate
                  THEN event.date ELSE acc.startDate,
    endDate |-> IF acc.endDate = NullDate \/ event.date > acc.endDate
                THEN event.date ELSE acc.endDate,
    totalContrib |-> acc.totalContrib + contributionOf(event),
    totalWithdrawals |-> acc.totalWithdrawals + withdrawalOf(event),
    dividendsPaid |-> IF event.dividendAmount > 0
                      THEN acc.dividendsPaid + event.dividendAmount
                      ELSE acc.dividendsPaid ]

\* const before = shares; shares += event.sharesDelta; const after = shares;
foldEvent(acc, event) == foldStep(acc, event, acc.shares, acc.shares + event.sharesDelta)

RECURSIVE foldEvents(_, _, _)
foldEvents(events, i, acc) ==
  IF i > Len(events) THEN acc
  ELSE foldEvents(events, i + 1, foldEvent(acc, events[i]))

\* The ledger after lines 231-241, from the sorted events and the fold's totals.
ledgerOf(symbol, events, f) ==
  [ symbol |-> symbol,
    events |-> events,
    cashflows |-> f.cashflows,
    dividendEvents |-> f.dividendEvents,
    shareHistory |-> f.shareHistory,
    totalContributions |-> f.totalContrib,
    totalWithdrawals |-> f.totalWithdrawals,
    netInvestedCash |-> f.totalContrib - f.totalWithdrawals,
    dividendsReceived |-> f.dividendsPaid,
    currentShares |-> f.shares,
    startDate |-> f.startDate,
    endDate |-> f.endDate,
    closed |-> (f.shares <= 0),
    positionCostBasis |-> 0,
    effectiveCostBasis |-> 0,
    description |-> <<>> ]

sortedLedger(symbol, events) == ledgerOf(symbol, events, foldEvents(events, 1, foldStart))

activityLedger(symbol, pushed) == sortedLedger(symbol, sortEvents(pushed))

\* The keys of the Map: the symbols of the entries that pass the early returns.
ledgerSymbols(entries) ==
  {rowSymbol(entries[i]) : i \in {j \in 1..Len(entries) : rowRetained(entries[j])}}

ledgersOf(entries) ==
  [symbol \in ledgerSymbols(entries) |-> activityLedger(symbol, eventsOf(entries, symbol))]

\* The Map symbol -> ledger, as a function on the symbols that got an event.
parseActivity(rows) == ledgersOf(dedupe(rows))

---------------------------------------------------------------------------
(* Position Reconciler: parsePositions and buildPortfolioModel.            *)

positionSymbol(row) ==
  extractSymbol(CellOrEmpty(row, "Symbol"), CellOrEmpty(row, "Description"), <<>>)

positionQty(row) == toNumberCell(row, "Quantity")

\* toNumber(row["Cost Basis Total"] ?? row["Cost Basis"])
positionCost(row) ==
  IF HasCell(row, "Cost Basis Total") THEN toNumber(row["Cost Basis Total"])
  ELSE toNumberCell(row, "Cost Basis")

\* The early returns of the forEach body of parsePositions.
positionRetained(row) ==
  /\ positionSymbol(row) # <<>>
  /\ ~isCashLike(CellOrEmpty(row, "Symbol"), CellOrEmpty(row, "Description"))
  /\ positionQty(row) > 0

\* entry.shares += qty; entry.costBasis += cost; the description is the first
\* one that is not empty.
addPosition(entry, row) ==
  [ symbol |-> entry.symbol,
    shares |-> entry.shares + positionQty(row),
    costBasis |-> entry.costBasis + positionCost(row),
    description |-> IF entry.description = <<>> THEN CellOrEmpty(row, "Description")
                    ELSE entry.description ]

RECURSIVE positionEntry(_, _, _, _)
positionEntry(entries, symbol, i, entry) ==
  IF i > Len(entries) THEN entry
  ELSE IF positionRetained(entries[i]) /\ positionSymbol(entries[i]) = symbol
       THEN positionEntry(entries, symbol, i + 1, addPosition(entry, entries[i]))
       ELSE positionEntry(entries, symbol, i + 1, entry)

positionSymbols(entries) ==
  {positionSymbol(entries[i]) : i \in {j \in 1..Len(entries) : positionRetained(entries[j])}}

positionsOf(entries) ==
  [symbol \in positionSymbols(entries) |->
     positionEntry(entries, symbol, 1,
                   [symbol |-> symbol, shares |-> 0, costBasis |-> 0, description |-> <<>>])]

parsePositions(rows) == positionsOf(dedupe(rows))

\* The ledger created for a symbol that has holdings and no activity.
emptyLedger(symbol) ==
  [ symbol |-> symbol,
    events |-> <<>>,
    cashflows |-> <<>>,
    dividendEvents |-> <<>>,
    shareHistory |-> <<>>,
    totalContributions |-> 0,
    totalWithdrawals |-> 0,
    netInvestedCash |-> 0,
    dividendsReceived |-> 0,
    currentShares |-> 0,
    startDate |-> NullDate,
    endDate |-> NullDate,
    closed |-> TRUE,
    positionCostBasis |-> 0,
    effectiveCostBasis |-> 0,
    description |-> <<>> ]

\* Mutant: the holding supplies the cost basis but does not override the shares.
applyPositionKeepsShares(ledger, positions) ==
  IF ledger.symbol \in DOMAIN positions
  THEN [ledger EXCEPT !.positionCostBasis = positions[ledger.symbol].costBasis]
  ELSE ledger

overrideWith(ledger, pos) ==
  [ledger EXCEPT !.positionCostBasis = pos.costBasis,
                 !.currentShares = pos.shares,
                 !.description = IF pos.description # <<>> THEN pos.description
                                 ELSE ledger.description]

\* if (pos) { positionCostBasis, currentShares, description } (lines 295-300).
applyPosition(ledger, positions) ==
  IF ledger.symbol \in DOMAIN positions
  THEN overrideWith(ledger, positions[ledger.symbol])
  ELSE ledger

\* Mutant: a reported basis of 0 is taken as authoritative.
resolveCostBasisZeroCounts(ledger) ==
  IF ledger.positionCostBasis >= 0
  THEN [ledger EXCEPT !.effectiveCostBasis = ledger.positionCostBasis]
  ELSE [ledger EXCEPT !.effectiveCostBasis = ledger.netInvestedCash]

\* lines 305-309.
resolveCostBasis(ledger) ==
  IF ledger.positionCostBasis > 0
  THEN [ledger EXCEPT !.effectiveCostBasis = ledger.positionCostBasis]
  ELSE [ledger EXCEPT !.effectiveCostBasis = ledger.netInvestedCash]

\* Mutant: the state derived from activity is kept.
resolveClosedFromActivity(ledger, positions) == ledger

\* lines 310-314.
resolveClosed(ledger, positions) ==
  IF ledger.symbol \in DOMAIN positions /\ positions[ledger.symbol].shares > 0
  THEN [ledger EXCEPT !.closed = FALSE]
  ELSE [ledger EXCEPT !.closed = (ledger.currentShares <= 0)]

reconcileLedger(ledger, positions) ==
  resolveClosed(resolveCostBasis(applyPosition(ledger, positions)), positions)

\* startDate / endDate of the model: the loop's running minimum and maximum over
\* the ledgers that have events (lines 301-304).
LedgersWithEvents(ledgers) == {sym \in DOMAIN ledgers : Len(ledgers[sym].events) > 0}

\* Mutant: ledgers without events take part (null < date holds in JavaScript).
modelStartDateAllLedgers(ledgers) ==
  IF DOMAIN ledgers = {} THEN NullDate
  ELSE SetMin({ledgers[sym].startDate : sym \in DOMAIN ledgers})

\* startDate / endDate of the model: the loop's running minimum and maximum over
\* the ledgers that have events (lines 301-304).
modelStartDate(ledgers) ==
  IF LedgersWithEvents(ledgers) = {} THEN NullDate
  ELSE SetMin({ledgers[sym].startDate : sym \in LedgersWithEvents(ledgers)})

modelEndDate(ledgers) ==
  IF LedgersWithEvents(ledgers) = {} THEN NullDate
  ELSE SetMax({ledgers[sym].endDate : sym \in LedgersWithEvents(ledgers)})

modelSymbols(ledgers, positions) == DOMAIN ledgers \cup DOMAIN positions

ledgerFor(symbol, ledgers) ==
  IF symbol \in DOMAIN ledgers THEN ledgers[symbol] ELSE emptyLedger(symbol)

reconcileAll(ledgers, positions) ==
  [symbol \in modelSymbols(ledgers, positions) |->
     reconcileLedger(ledgerFor(symbol, ledgers), positions)]

modelOf(all) ==
  [ symbols |-> all,
    startDate |-> modelStartDate(all),
    endDate |-> modelEndDate(all) ]

buildPortfolioModel(activityRowsIn, positionRowsIn) ==
  modelOf(reconcileAll(parseActivity(activityRowsIn), parsePositions(positionRowsIn)))

---------------------------------------------------------------------------
(* Input batches.  The bounded sets the rows are drawn from.               *)

MaxLedgerRows == 3

MaxLedgerHoldings == 1

MaxSymbolRows == 2

MaxHoldingRows == 2

ActBuy == <<"Y","O","U"," ","B","O","U","G","H","T">>

ActSell == <<"Y","o","u"," "," ","S","o","l","d">>

ActDividend == <<"D","I","V","I","D","E","N","D"," ","R","E","C","E","I","V","E","D">>

ActReinvest == <<"R","E","I","N","V","E","S","T","M","E","N","T">>

ActTransfer == <<"T","R","A","N","S","F","E","R">>

SymA == <<"A">>

SymB == <<"B">>

DescAcme == <<"A","C","M","E">>

ActivityRow(action, symbol, desc, qty, amount, runDate) ==
  ("Action" :> action) @@ ("Symbol" :> symbol) @@ ("Description" :> desc)
    @@ ("Quantity" :> qty) @@ ("Amount ($)" :> amount) @@ ("Run Date" :> runDate)

\* One security traded over three days, with the sign conventions exports use:
\* negative amounts for purchases, negative quantities for sales, parenthesised
\* and comma-grouped numbers, an empty Quantity on a dividend.
LedgerPool ==
  { ActivityRow(ActBuy, SymA, DescAcme, <<"1","0","0">>, <<"-","1","0","0","0">>, 1),
    ActivityRow(ActBuy, SymA, DescAcme, <<"5","0">>, <<"-","6","0","0">>, 2),
    ActivityRow(ActSell, SymA, DescAcme, <<"-","3","0">>, <<"4","5","0">>, 3),
    ActivityRow(ActDividend, SymA, DescAcme, <<>>, <<"5">>, 2),
    ActivityRow(ActReinvest, SymA, DescAcme, <<"1">>, <<"-","5">>, 2),
    ActivityRow(ActReinvest, SymA, DescAcme, <<"1">>, <<"5">>, 2),
    ActivityRow(ActBuy, SymA, DescAcme, <<"1","0">>, <<"$","1","0","0">>, 1),
    ActivityRow(ActSell, SymA, DescAcme, <<"1","0","0">>, <<"(","1",",","5","0","0",")">>, 3) }

HoldingRow(symbol, desc, qty, cost) ==
  ("Symbol" :> symbol) @@ ("Description" :> desc) @@ ("Quantity" :> qty)
    @@ ("Cost Basis Total" :> cost)

LedgerHoldingPool ==
  { HoldingRow(SymA, DescAcme, <<"1","0","0">>, <<"-","-">>),
    HoldingRow(SymB, <<>>, <<"5">>, <<"$","5","0">>) }

\* Rows whose symbol needs resolving: padded lower case, a currency prefix, a
\* cash token, a ticker in parentheses in the description; a second date column;
\* rows the early returns drop.
SymbolPool ==
  { ("Action" :> ActBuy) @@ ("Symbol" :> <<" ","a"," ">>) @@ ("Description" :> DescAcme)
      @@ ("Quantity" :> <<"1","0">>) @@ ("Amount" :> <<"1","0","0">>)
      @@ ("Run Date" :> BadDate) @@ ("Date" :> 2),
    ActivityRow(ActBuy, <<"$","C","A","S","H">>, <<>>, <<"1","0">>, <<"1","0","0">>, 1),
    ActivityRow(ActBuy, StrCASH, <<>>, <<"1","0">>, <<"1","0","0">>, 1),
    ActivityRow(ActBuy, <<>>, <<"B","E","T","A"," ","(","B",")">>, <<"1","0">>, <<"1","0","0">>, 1),
    ActivityRow(ActSell, SymB, <<>>, <<"1","0">>, <<"1","5","0">>, 3),
    ActivityRow(ActTransfer, SymA, DescAcme, <<"1">>, <<"1">>, 1),
    ActivityRow(ActDividend, SymA, DescAcme, <<>>, <<"5">>, EmptyCell) }

HoldingPool ==
  { HoldingRow(SymA, DescAcme, <<"5">>, <<"5","0">>),
    ("Symbol" :> <<"a">>) @@ ("Description" :> <<>>) @@ ("Quantity" :> <<"7">>)
      @@ ("Cost Basis" :> <<"7","0">>),
    HoldingRow(SymA, DescAcme, <<"0">>, <<"1","0">>),
    HoldingRow(SymB, <<>>, <<"3">>, <<"-","-">>),
    HoldingRow(<<"$","F","C","A","S","H">>, <<>>, <<"9">>, <<"9">>) }

---------------------------------------------------------------------------
(* The state machine: a request's two batches, then the model built from   *)
(* them.                                                                   *)

NoModel == [symbols |-> <<>>, startDate |-> NullDate, endDate |-> NullDate]

\* No series is being unitized.
SeriesIdle ==
  /\ marketValues = <<>>
  /\ cashflows = <<>>
  /\ dayIndex = 0
  /\ unitPrice = <<1, 1>>
  /\ unitCount = <<0, 1>>
  /\ nav = <<>>
  /\ units = <<>>
  /\ divisors = <<>>
  /\ twr = <<>>
  /\ seriesPhase = "idle"

\* No performance is being computed.
PerfIdle ==
  /\ market = <<>>
  /\ today = 0
  /\ currentPrices = <<>>
  /\ priceHistory = <<>>
  /\ performance = <<>>
  /\ perfPhase = "idle"

\* The server is not running.
ServerIdle ==
  /\ uploadsDir = <<>>
  /\ positionsDir = <<>>
  /\ inflight = <<>>
  /\ responses = <<>>

\* No lookup has been made.
CacheIdle ==
  /\ CACHE = <<>>
  /\ HISTORY_CACHE = <<>>
  /\ clock = 0
  /\ historyFetchedAt = <<>>
  /\ served = {}
  /\ requested = {}
  /\ lookups = 0

\* No timeline is being built.
TimelineIdle ==
  /\ symbolLedger = <<>>
  /\ dateIndex = <<>>
  /\ priceSeriesRaw = <<>>
  /\ symbolQuote = <<>>
  /\ sharesSeries = <<>>
  /\ priceSeries = <<>>
  /\ cashflowSeries = <<>>
  /\ marketValueSeries = <<>>
  /\ timelinePhase = "idle"

\* No rate is being computed.
XirrIdle ==
  /\ xirrFlows = <<>>
  /\ attempts = 0
  /\ high = 0
  /\ bisected = <<>>
  /\ rootAt = <<>>
  /\ fLow = 0
  /\ fHigh = 0
  /\ iterations = 0
  /\ irr = <<>>
  /\ xirrPhase = "idle"

\* The two families of batches: the rows of a request come from one of them.
Families ==
  { [ activity |-> LedgerPool, maxActivity |-> MaxLedgerRows,
      holdings |-> LedgerHoldingPool, maxHoldings |-> MaxLedgerHoldings ],
    [ activity |-> SymbolPool, maxActivity |-> MaxSymbolRows,
      holdings |-> HoldingPool, maxHoldings |-> MaxHoldingRows ] }

InFamily(fam) ==
  /\ Range(activityRows) \subseteq fam.activity
  /\ Range(positionRows) \subseteq fam.holdings

Init ==
  /\ activityRows = <<>>
  /\ positionRows = <<>>
  /\ model = NoModel
  /\ phase = "input"
  /\ SeriesIdle
  /\ PerfIdle
  /\ ServerIdle
  /\ CacheIdle
  /\ XirrIdle
  /\ TimelineIdle

\* The caller hands over one more activity row (rows = rows.concat(parsed)).
ReadActivityRow ==
  /\ phase = "input"
  /\ \E fam \in Families :
       /\ InFamily(fam)
       /\ Len(activityRows) < fam.maxActivity
       /\ \E row \in fam.activity : activityRows' = Append(activityRows, row)
  /\ UNCHANGED <<positionRows, model, phase>>
  /\ UNCHANGED otherThanLedger

\* The caller hands over one more holdings row.
ReadPositionRow ==
  /\ phase = "input"
  /\ \E fam \in Families :
       /\ InFamily(fam)
       /\ Len(positionRows) < fam.maxHoldings
       /\ \E row \in fam.holdings : positionRows' = Append(positionRows, row)
  /\ UNCHANGED <<activityRows, model, phase>>
  /\ UNCHANGED otherThanLedger

BuildPortfolioModel ==
  /\ phase = "input"
  /\ model' = buildPortfolioModel(activityRows, positionRows)
  /\ phase' = "built"
  /\ UNCHANGED <<activityRows, positionRows>>
  /\ UNCHANGED otherThanLedger

Next == ReadActivityRow \/ ReadPositionRow \/ BuildPortfolioModel

Spec == Init /\ [][Next]_vars

Built == phase = "built"

Ledgers == model.symbols

---------------------------------------------------------------------------
(* Vocabulary of the properties.                                           *)

\* The de-duplicated activity batch and the rows of it that produce an event.
Entries == dedupe(activityRows)

RetainedIndexes == {i \in 1..Len(Entries) : rowRetained(Entries[i])}

\* The event built from entry i: the one carrying its 0-based index.
EventsOfEntry(i) ==
  LET sym == rowSymbol(Entries[i])
  IN IF sym \in DOMAIN Ledgers
     THEN {e \in Range(Ledgers[sym].events) : e.sequence = i - 1}
     ELSE {}

\* Symbols that have a holdings row parsePositions keeps.
HeldSymbols ==
  {positionSymbol(positionRows[i]) :
     i \in {j \in 1..Len(positionRows) : positionRetained(positionRows[j])}}

RECURSIVE SumSharesDelta(_)
SumSharesDelta(events) ==
  IF events = <<>> THEN 0 ELSE events[1].sharesDelta + SumSharesDelta(Tail(events))

\* The magnitude a numeral denotes, read off its digits alone, whatever sign
\* convention (minus, parentheses) and punctuation surround them.
Magnitude(cell) == DigitsValue(SelectSeq(cell, IsDigit))

AmountKey(row) == IF HasCell(row, "Amount ($)") THEN "Amount ($)" ELSE "Amount"

QtyMagnitude(row) == IF HasCell(row, "Quantity") THEN Magnitude(row["Quantity"]) ELSE 0

AmountMagnitude(row) == Magnitude(row[AmountKey(row)])

\* The numeral with its sign flipped: -n <-> n, (n) <-> n.
NegateCell(cell) ==
  IF cell # <<>> /\ cell[1] = "-" THEN Tail(cell)
  ELSE IF Len(cell) >= 2 /\ cell[1] = "(" /\ cell[Len(cell)] = ")"
       THEN SubSeq(cell, 2, Len(cell) - 1)
  ELSE <<"-">> \o cell

NegateCells(row, keys) ==
  [k \in DOMAIN row |-> IF k \in keys THEN NegateCell(row[k]) ELSE row[k]]

SignedKeySets(row) ==
  {{"Quantity"}, {AmountKey(row)}, {"Quantity", AmountKey(row)}}

ReplaceRow(rows, i, row) == [rows EXCEPT ![i] = row]

---------------------------------------------------------------------------
(* C1: for every activity batch and every symbol that has no retained      *)
(* holdings row, the ledger of the built model has currentShares equal to  *)
(* the sum of sharesDelta over its sorted events, and its last             *)
(* shareHistory entry carries that value.                                  *)
C1_CurrentSharesIsSumOfDeltas ==
  Built =>
    \A sym \in DOMAIN Ledgers \ HeldSymbols :
      LET l == Ledgers[sym]
      IN /\ l.currentShares = SumSharesDelta(l.events)
         /\ Len(l.shareHistory) = Len(l.events)
         /\ Len(l.shareHistory) > 0
         /\ l.shareHistory[Len(l.shareHistory)].shares = l.currentShares

\* Two purchases and a sale, uploaded out of date order, no holding: 120 shares.
C1_Witness ==
  /\ Built
  /\ SymA \in DOMAIN Ledgers \ HeldSymbols
  /\ Len(Ledgers[SymA].events) = 3
  /\ \E e \in Range(Ledgers[SymA].events) : e.sharesDelta < 0
  /\ Ledgers[SymA].events[1].sequence # 0
  /\ Ledgers[SymA].currentShares = 120

---------------------------------------------------------------------------
(* C2 (as stated): every retained row's event takes its signs from the     *)
(* classified action alone -- buy: sharesDelta = +|qty|, cashFlow = -|amt|;*)
(* sell: -|qty|, +|amt|; dividend: dividendAmount = |amt|, cashFlow =      *)
(* +|amt|, sharesDelta = 0; reinvest: dividendAmount = |amt|, sharesDelta  *)
(* = +|qty|, cashFlow = 0, reinvested -- and negating the Quantity and/or  *)
(* Amount of any row leaves every ledger unchanged.                        *)
EventSignsFollowAction(row, e) ==
  LET q == QtyMagnitude(row)
      a == AmountMagnitude(row)
  IN CASE e.eventType = "buy" ->
            e.sharesDelta = q /\ e.cashFlow = -a /\ e.dividendAmount = 0 /\ ~e.reinvested
       [] e.eventType = "sell" ->
            e.sharesDelta = -q /\ e.cashFlow = a /\ e.dividendAmount = 0 /\ ~e.reinvested
       [] e.eventType = "dividend" ->
            e.dividendAmount = a /\ e.cashFlow = a /\ e.sharesDelta = 0 /\ ~e.reinvested
       [] e.eventType = "reinvest" ->
            e.dividendAmount = a /\ e.sharesDelta = q /\ e.cashFlow = 0 /\ e.reinvested
       [] OTHER -> FALSE

AllEventSignsFollowAction ==
  \A i \in RetainedIndexes :
    /\ Cardinality(EventsOfEntry(i)) = 1
    /\ \A e \in EventsOfEntry(i) : EventSignsFollowAction(Entries[i], e)

NegationKeepsLedgers(i, keys) ==
  buildPortfolioModel(ReplaceRow(activityRows, i, NegateCells(activityRows[i], keys)),
                      positionRows).symbols = Ledgers

C2_AsStated ==
  Built =>
    /\ AllEventSignsFollowAction
    /\ \A i \in 1..Len(activityRows) : \A keys \in SignedKeySets(activityRows[i]) :
         NegationKeepsLedgers(i, keys)

(* C2 (amended): the sign rules hold for every retained row, and negating  *)
(* the Quantity and/or Amount of a row leaves every ledger unchanged       *)
(* provided neither the row nor its negated form is an exact duplicate of  *)
(* another row of the batch (de-duplication compares the raw cells, so a   *)
(* sign flip can create or remove a duplicate).                            *)
NoDuplicateTouched(i, keys) ==
  \A j \in 1..Len(activityRows) :
    j # i => /\ activityRows[j] # activityRows[i]
             /\ activityRows[j] # NegateCells(activityRows[i], keys)

C2_SignsFromActionOnly ==
  Built =>
    /\ AllEventSignsFollowAction
    /\ \A i \in 1..Len(activityRows) : \A keys \in SignedKeySets(activityRows[i]) :
         NoDuplicateTouched(i, keys) => NegationKeepsLedgers(i, keys)

\* A sale exported with a negative quantity and a purchase exported with a
\* negative amount, both in one ledger.
C2_Witness ==
  /\ Built
  /\ \E i, j \in RetainedIndexes :
       /\ StartsWith(Entries[i]["Quantity"], <<"-">>)
       /\ \E e \in EventsOfEntry(i) : e.eventType = "sell" /\ e.sharesDelta = -30 /\ e.cashFlow = 450
       /\ StartsWith(Entries[j][AmountKey(Entries[j])], <<"-">>)
       /\ \E e \in EventsOfEntry(j) : e.eventType = "buy" /\ e.sharesDelta = 100 /\ e.cashFlow = -1000

---------------------------------------------------------------------------
(* C3: for every ledger, netInvestedCash = totalContributions -            *)
(* totalWithdrawals, totalContributions is the sum of |amount| over the    *)
(* buy rows only and totalWithdrawals the sum over the sell rows only;     *)
(* dividend and reinvest rows change none of the three.  Buy 100 for 1000, *)
(* buy 50 for 600, sell 30 for 450: 120 shares, 1150 net invested.         *)
RECURSIVE SumAmountMagnitudes(_)
SumAmountMagnitudes(idx) ==
  IF idx = {} THEN 0
  ELSE LET i == CHOOSE i \in idx : TRUE
       IN AmountMagnitude(Entries[i]) + SumAmountMagnitudes(idx \ {i})

EntriesOfType(sym, type) ==
  {i \in RetainedIndexes :
     rowSymbol(Entries[i]) = sym /\ classifyAction(Entries[i]["Action"]) = type}

C3_NetInvestedCash ==
  Built =>
    \A sym \in DOMAIN Ledgers :
      LET l == Ledgers[sym]
      IN /\ l.totalContributions = SumAmountMagnitudes(EntriesOfType(sym, "buy"))
         /\ l.totalWithdrawals = SumAmountMagnitudes(EntriesOfType(sym, "sell"))
         /\ l.netInvestedCash = l.totalContributions - l.totalWithdrawals

C3_Witness ==
  /\ Built
  /\ SymA \in DOMAIN Ledgers
  /\ Cardinality(EntriesOfType(SymA, "buy")) = 2
  /\ Cardinality(EntriesOfType(SymA, "sell")) = 1
  /\ Ledgers[SymA].totalContributions = 1600
  /\ Ledgers[SymA].totalWithdrawals = 450
  /\ Ledgers[SymA].netInvestedCash = 1150
  /\ Ledgers[SymA].currentShares = 120

\* Dividend and reinvest rows beside a purchase leave the totals at the purchase's.
C3_DividendsLeaveTotals ==
  /\ Built
  /\ SymA \in DOMAIN Ledgers
  /\ EntriesOfType(SymA, "dividend") # {}
  /\ EntriesOfType(SymA, "reinvest") # {}
  /\ Ledgers[SymA].netInvestedCash = 100

---------------------------------------------------------------------------
(* C4 (as stated): every dividend event of a ledger, from a dividend row   *)
(* or a reinvest row, stores as shares held the balance before that day's  *)
(* share delta is applied, i.e. the sum of the share deltas of the events  *)
(* dated on earlier days.  10 shares held, a same-day dividend of 5        *)
(* reinvested into 1 share: 10 is recorded, the day ends at 11.            *)
DividendEventIndexes(l) == {k \in 1..Len(l.events) : l.events[k].dividendAmount > 0}

\* The position in l.events of the event behind the n-th dividend event.
SourceOfDividendEvent(l, n) ==
  CHOOSE k \in DividendEventIndexes(l) :
    Cardinality({j \in DividendEventIndexes(l) : j <= k}) = n

RECURSIVE SumDeltasBefore(_, _)
SumDeltasBefore(events, day) ==
  IF events = <<>> THEN 0
  ELSE (IF events[1].date < day THEN events[1].sharesDelta ELSE 0)
         + SumDeltasBefore(Tail(events), day)

C4_DividendSharesBeforeTheDay ==
  Built =>
    \A sym \in DOMAIN Ledgers :
      LET l == Ledgers[sym]
      IN /\ Len(l.dividendEvents) = Cardinality(DividendEventIndexes(l))
         /\ \A n \in 1..Len(l.dividendEvents) :
              l.dividendEvents[n].sharesAtEvent =
                SumDeltasBefore(l.events, l.dividendEvents[n].date)

\* What the code does record: the balance before the event's own share delta,
\* which leaves out every purchase and sale of the day but takes in the shares of
\* the reinvest events sorted before it on the same day.
C4_DividendSharesBeforeTheEvent ==
  Built =>
    \A sym \in DOMAIN Ledgers :
      LET l == Ledgers[sym]
      IN /\ Len(l.dividendEvents) = Cardinality(DividendEventIndexes(l))
         /\ \A n \in 1..Len(l.dividendEvents) :
              LET k == SourceOfDividendEvent(l, n)
              IN l.dividendEvents[n].sharesAtEvent =
                   SumSharesDelta(SubSeq(l.events, 1, k - 1))

C4_Example ==
  /\ Built
  /\ SymA \in DOMAIN Ledgers
  /\ Len(Ledgers[SymA].dividendEvents) = 2
  /\ \A n \in 1..2 : Ledgers[SymA].dividendEvents[n].sharesAtEvent = 10
  /\ Ledgers[SymA].dividendEvents[2].reinvested
  /\ Ledgers[SymA].currentShares = 11

---------------------------------------------------------------------------
(* C5: building is idempotent under de-duplication: the model built from   *)
(* the batches equals the model built from the batches with every exact    *)
(* copy of an earlier row removed, and appending an exact copy of a row    *)
(* already in a batch leaves the model (events, sequence numbers, totals,  *)
(* currentShares) unchanged.                                               *)
FirstOccurrences(rows) ==
  LET first == {i \in 1..Len(rows) : \A j \in 1..(i - 1) : rows[j] # rows[i]}
      pick[k \in 0..Cardinality(first)] ==
        IF k = 0 THEN <<>>
        ELSE Append(pick[k - 1],
                    rows[CHOOSE i \in first : Cardinality({j \in first : j <= i}) = k])
  IN pick[Cardinality(first)]

C5_IdempotentUnderDedupe ==
  Built =>
    /\ model = buildPortfolioModel(FirstOccurrences(activityRows),
                                   FirstOccurrences(positionRows))
    /\ \A i \in 1..Len(activityRows) :
         buildPortfolioModel(Append(activityRows, activityRows[i]), positionRows) = model
    /\ \A i \in 1..Len(positionRows) :
         buildPortfolioModel(activityRows, Append(positionRows, positionRows[i])) = model

\* A batch with a retained row and a copy of it before a later retained row: one
\* event for the two copies, and the later row keeps the sequence number 1.
C5_Witness ==
  /\ Built
  /\ Len(activityRows) = 3
  /\ activityRows[1] = activityRows[2]
  /\ activityRows[3] # activityRows[1]
  /\ SymA \in DOMAIN Ledgers
  /\ Len(Ledgers[SymA].events) = 2
  /\ \E e \in Range(Ledgers[SymA].events) : e.sequence = 1

---------------------------------------------------------------------------
(* C6 (as stated): no ledger of the built model is keyed by the empty      *)
(* symbol or by a cash-equivalent token, the key being the symbol after    *)
(* trimming, upper-casing and stripping a leading "$"; also for rows whose *)
(* Symbol cell carries the "$" prefix.                                     *)
C6_NoCashLedger ==
  Built => \A sym \in DOMAIN Ledgers : sym # <<>> /\ sym \notin CASH_TICKERS

\* What does hold: no ledger is keyed by the empty symbol.
C6_NoEmptyKey ==
  Built => <<>> \notin DOMAIN Ledgers

---------------------------------------------------------------------------
(* C7 (as stated): for every symbol with a holdings row that survives the  *)
(* symbol and cash filtering, the ledger's currentShares is the sum of the *)
(* Quantity values of those rows and positionCostBasis the sum of their    *)
(* cost bases, whatever balance the activity derives -- also when the      *)
(* holdings sum to zero shares and the activity derives a positive one.    *)
SignedValue(cell) ==
  IF cell # <<>> /\ cell[1] \in {"-", "("} THEN -Magnitude(cell) ELSE Magnitude(cell)

HoldingQty(row) == IF HasCell(row, "Quantity") THEN SignedValue(row["Quantity"]) ELSE 0

HoldingCost(row) ==
  IF HasCell(row, "Cost Basis Total") THEN SignedValue(row["Cost Basis Total"])
  ELSE IF HasCell(row, "Cost Basis") THEN SignedValue(row["Cost Basis"])
  ELSE 0

Holdings == FirstOccurrences(positionRows)

\* The holdings rows of `sym` that pass the symbol and cash filtering.
SurvivingHoldings(sym) ==
  {i \in 1..Len(Holdings) :
     /\ positionSymbol(Holdings[i]) = sym
     /\ ~isCashLike(CellOrEmpty(Holdings[i], "Symbol"), CellOrEmpty(Holdings[i], "Description"))}

PositiveHoldings(sym) == {i \in SurvivingHoldings(sym) : HoldingQty(Holdings[i]) > 0}

RECURSIVE SumHoldingQty(_)
SumHoldingQty(idx) ==
  IF idx = {} THEN 0
  ELSE LET i == CHOOSE i \in idx : TRUE
       IN HoldingQty(Holdings[i]) + SumHoldingQty(idx \ {i})

RECURSIVE SumHoldingCost(_)
SumHoldingCost(idx) ==
  IF idx = {} THEN 0
  ELSE LET i == CHOOSE i \in idx : TRUE
       IN HoldingCost(Holdings[i]) + SumHoldingCost(idx \ {i})

C7_AsStated ==
  Built =>
    \A sym \in DOMAIN Ledgers :
      SurvivingHoldings(sym) # {} =>
        /\ Ledgers[sym].currentShares = SumHoldingQty(SurvivingHoldings(sym))
        /\ Ledgers[sym].positionCostBasis = SumHoldingCost(SurvivingHoldings(sym))

(* C7 (amended): for every symbol with a surviving holdings row of         *)
(* positive Quantity, currentShares is the sum of the Quantity values and  *)
(* positionCostBasis the sum of the cost bases of its distinct surviving   *)
(* rows of positive Quantity, whatever balance the activity derives; rows  *)
(* with Quantity <= 0 are skipped, and a symbol all of whose surviving     *)
(* rows are skipped keeps the activity-derived currentShares and a         *)
(* positionCostBasis of 0.                                                 *)
C7_HoldingsOverride ==
  Built =>
    /\ \A sym \in DOMAIN Ledgers :
         IF PositiveHoldings(sym) # {}
         THEN /\ Ledgers[sym].currentShares = SumHoldingQty(PositiveHoldings(sym))
              /\ Ledgers[sym].positionCostBasis = SumHoldingCost(PositiveHoldings(sym))
         ELSE /\ Ledgers[sym].currentShares = SumSharesDelta(Ledgers[sym].events)
              /\ Ledgers[sym].positionCostBasis = 0
    /\ \A i \in 1..Len(Holdings) :
         PositiveHoldings(positionSymbol(Holdings[i])) # {}
           => positionSymbol(Holdings[i]) \in DOMAIN Ledgers

\* Two holdings rows of one symbol (5 and 7 shares, bases 50 and 70) over an
\* activity balance of 10: 12 shares, basis 120.
C7_Witness ==
  /\ Built
  /\ SymA \in DOMAIN Ledgers
  /\ Cardinality(PositiveHoldings(SymA)) = 2
  /\ SumSharesDelta(Ledgers[SymA].events) = 10
  /\ Ledgers[SymA].currentShares = 12
  /\ Ledgers[SymA].positionCostBasis = 120

---------------------------------------------------------------------------
(* C8: every ledger of the built model has closed = (currentShares <= 0),  *)
(* unless a holding with positive shares exists for the symbol, and then   *)
(* closed = FALSE even if the activity-derived history ends at zero or     *)
(* below; so no ledger is both closed and holding a positive currentShares.*)
C8_ClosedUnlessLiveHolding ==
  Built =>
    \A sym \in DOMAIN Ledgers :
      LET l == Ledgers[sym]
      IN /\ IF PositiveHoldings(sym) # {} THEN l.closed = FALSE
            ELSE l.closed = (l.currentShares <= 0)
         /\ ~(l.closed /\ l.currentShares > 0)

\* A sale without a purchase leaves the activity at -10 shares; a holding of 3
\* keeps the ledger open.
C8_Witness ==
  /\ Built
  /\ SymB \in DOMAIN Ledgers
  /\ SumSharesDelta(Ledgers[SymB].events) = -10
  /\ PositiveHoldings(SymB) # {}
  /\ Ledgers[SymB].currentShares = 3
  /\ ~Ledgers[SymB].closed

---------------------------------------------------------------------------
(* C9: for every ledger of the built model, effectiveCostBasis is          *)
(* positionCostBasis when that is > 0 and netInvestedCash otherwise: a     *)
(* holding with cost basis 0 over 1000 net invested gives 1000; a symbol   *)
(* without a holding uses netInvestedCash.                                 *)
C9_EffectiveCostBasis ==
  Built =>
    \A sym \in DOMAIN Ledgers :
      LET l == Ledgers[sym]
      IN /\ l.effectiveCostBasis =
              IF l.positionCostBasis > 0 THEN l.positionCostBasis ELSE l.netInvestedCash
         /\ PositiveHoldings(sym) = {} => l.effectiveCostBasis = l.netInvestedCash

C9_Witness ==
  /\ Built
  /\ SymA \in DOMAIN Ledgers
  /\ PositiveHoldings(SymA) # {}
  /\ Ledgers[SymA].positionCostBasis = 0
  /\ Ledgers[SymA].netInvestedCash = 1000
  /\ Ledgers[SymA].effectiveCostBasis = 1000

---------------------------------------------------------------------------
(* C10: the built model has a ledger for every symbol of the activity      *)
(* ledgers and of the holdings; a symbol with holdings and no activity     *)
(* gets an empty ledger (no events, zero totals, null dates); the model's  *)
(* startDate and endDate are the least startDate and the greatest endDate  *)
(* over the ledgers with an event, so holdings-only symbols never change   *)
(* them, and they are null when no ledger has an event.                    *)
ActivitySymbols == {rowSymbol(Entries[i]) : i \in RetainedIndexes}

EventDates == {extractDate(Entries[i]) : i \in RetainedIndexes}

C10_UnionAndDateRange ==
  Built =>
    /\ DOMAIN Ledgers = ActivitySymbols \cup HeldSymbols
    /\ \A sym \in HeldSymbols \ ActivitySymbols :
         LET l == Ledgers[sym]
         IN /\ l.events = <<>> /\ l.cashflows = <<>> /\ l.shareHistory = <<>>
            /\ l.dividendEvents = <<>>
            /\ l.totalContributions = 0 /\ l.totalWithdrawals = 0
            /\ l.netInvestedCash = 0 /\ l.dividendsReceived = 0
            /\ l.startDate = NullDate /\ l.endDate = NullDate
    /\ model.startDate = (IF EventDates = {} THEN NullDate ELSE SetMin(EventDates))
    /\ model.endDate = (IF EventDates = {} THEN NullDate ELSE SetMax(EventDates))

\* Activity in one symbol from day 1 to day 3 and a holdings-only symbol.
C10_Witness ==
  /\ Built
  /\ HeldSymbols \ ActivitySymbols # {}
  /\ ActivitySymbols # {}
  /\ model.startDate = 1
  /\ model.endDate = 3

---------------------------------------------------------------------------
(* Numbers of the unitization engine and of the return calculators.        *)
(* A JavaScript number is modelled as an exact rational <<n, d>> in lowest *)
(* terms with d > 0 (rounding of IEEE doubles is not modelled); null is    *)
(* <<>>.  Comparison goes by integer parts and reciprocals, so that        *)
(* EPSILON = 1e-9 can be compared without a product leaving the integers.  *)

RECURSIVE Gcd(_, _)
Gcd(a, b) == IF b = 0 THEN a ELSE Gcd(b, a % b)

RatReduce(n, d, g) == <<n \div g, d \div g>>

\* n / d for d # 0.
RatOf(n, d) ==
  IF d < 0 THEN RatReduce(-n, -d, Gcd(Abs(n), Abs(d)))
  ELSE RatReduce(n, d, Gcd(Abs(n), Abs(d)))

Num(n) == <<n, 1>>

NullNum == <<>>

Zero == <<0, 1>>

One == <<1, 1>>

RatNeg(x) == <<-x[1], x[2]>>

RatAbs(x) == <<Abs(x[1]), x[2]>>

RatAddOver(x, y, g) ==
  RatOf(x[1] * (y[2] \div g) + y[1] * (x[2] \div g), (x[2] \div g) * y[2])

RatAdd(x, y) == RatAddOver(x, y, Gcd(x[2], y[2]))

RatSub(x, y) == RatAdd(x, RatNeg(y))

RatMulOver(x, y, g1, g2) ==
  RatOf((x[1] \div g1) * (y[1] \div g2), (x[2] \div g2) * (y[2] \div g1))

RatMul(x, y) == RatMulOver(x, y, Gcd(Abs(x[1]), y[2]), Gcd(Abs(y[1]), x[2]))

\* 1 / y for y # 0.
RatInv(y) == IF y[1] < 0 THEN <<-y[2], -y[1]>> ELSE <<y[2], y[1]>>

RatDiv(x, y) == RatMul(x, RatInv(y))

\* a/b < c/d for a, c >= 0 and b, d > 0.
RECURSIVE PosLess(_, _, _, _)
PosLess(a, b, c, d) ==
  IF a \div b # c \div d THEN a \div b < c \div d
  ELSE IF c % d = 0 THEN FALSE
  ELSE IF a % b = 0 THEN TRUE
  ELSE PosLess(d, c % d, b, a % b)

RatLess(x, y) ==
  IF x[1] < 0 /\ y[1] < 0 THEN PosLess(-y[1], y[2], -x[1], x[2])
  ELSE IF x[1] < 0 \/ y[1] < 0 THEN x[1] < 0
  ELSE PosLess(x[1], x[2], y[1], y[2])

EPSILON == <<1, 1000000000>>

---------------------------------------------------------------------------
(* Unitization engine: combineSeries, one day of its loop at a time.       *)

\* if (Math.abs(unitPrice) < EPSILON) unitPrice = 1;
inflowPrice(up) == IF RatLess(RatAbs(up), EPSILON) THEN One ELSE up

\* flow < -EPSILON (an undefined flow compares false).
isInflow(flow) == flow # NullNum /\ RatLess(flow, RatNeg(EPSILON))

\* flow > EPSILON && unitPrice !== 0, tested when the flow is not an inflow.
isOutflow(flow, up) == flow # NullNum /\ RatLess(EPSILON, flow) /\ up # Zero

\* if (unitCount < 0) unitCount = 0;
floorAtZero(uc) == IF RatLess(uc, Zero) THEN Zero ELSE uc

priceAfterFlow(up, flow) == IF isInflow(flow) THEN inflowPrice(up) ELSE up

countAfterFlow(up, uc, flow) ==
  IF isInflow(flow) THEN RatAdd(uc, RatDiv(RatNeg(flow), inflowPrice(up)))
  ELSE IF isOutflow(flow, up) THEN floorAtZero(RatSub(uc, RatDiv(flow, up)))
  ELSE uc

\* The divisor of the day's division of a flow by the unit price, if any.
divisorOfDay(up, flow) ==
  IF isInflow(flow) THEN <<inflowPrice(up)>>
  ELSE IF isOutflow(flow, up) THEN <<up>>
  ELSE <<>>

\* Mutant: the unit price is never marked to the market value.
revalueNever(up, uc, mv) == up

\* if (unitCount > 0 && mv != null) unitPrice = mv / unitCount;
revalue(up, uc, mv) == IF RatLess(Zero, uc) /\ mv # NullNum THEN RatDiv(mv, uc) ELSE up

\* One iteration of the loop on the running (unitPrice, unitCount).
dayPrice(up, uc, mv, flow) ==
  revalue(priceAfterFlow(up, flow), countAfterFlow(up, uc, flow), mv)

RECURSIVE combineFrom(_, _, _, _, _, _, _)
combineFrom(mvs, flows, i, up, uc, navOut, unitsOut) ==
  IF i > Len(mvs) THEN [nav |-> navOut, units |-> unitsOut]
  ELSE combineFrom(mvs, flows, i + 1,
                   dayPrice(up, uc, mvs[i], flows[i]),
                   countAfterFlow(up, uc, flows[i]),
                   Append(navOut, dayPrice(up, uc, mvs[i], flows[i])),
                   Append(unitsOut, countAfterFlow(up, uc, flows[i])))

combineSeries(mvs, flows) == combineFrom(mvs, flows, 1, One, Zero, <<>>, <<>>)

---------------------------------------------------------------------------
(* Time-weighted return: computeTwr.                                       *)

Reverse(seq) == [i \in 1..Len(seq) |-> seq[Len(seq) + 1 - i]]

\* units[idx] > EPSILON && nav[idx] > EPSILON, idx being 0-based in the code.
validDay(unitsIn, navIn, i) == RatLess(EPSILON, unitsIn[i]) /\ RatLess(EPSILON, navIn[i])

\* nav.find(...): the value at the least index that passes.
firstValid(unitsIn, navIn) ==
  navIn[SetMin({i \in 1..Len(navIn) : validDay(unitsIn, navIn, i)})]

\* Mutant: the reversed copy is tested against units at the same index.
reversedValidSameIndex(unitsIn, rev, k) ==
  RatLess(EPSILON, unitsIn[k]) /\ RatLess(EPSILON, rev[k])

\* The test of the reversed find: units[nav.length - 1 - idx] > EPSILON && v > EPSILON.
reversedValid(unitsIn, rev, k) ==
  RatLess(EPSILON, unitsIn[Len(rev) + 1 - k]) /\ RatLess(EPSILON, rev[k])

\* [...nav].reverse().find(...): undefined (<<>>) when no entry passes.
lastValidIn(unitsIn, rev) ==
  IF \E k \in 1..Len(rev) : reversedValid(unitsIn, rev, k)
  THEN rev[SetMin({k \in 1..Len(rev) : reversedValid(unitsIn, rev, k)})]
  ELSE NullNum

\* if (!first || !last) return null; return last / first - 1;
twrOf(first, last) ==
  IF first = NullNum \/ first = Zero \/ last = NullNum \/ last = Zero THEN NullNum
  ELSE RatSub(RatDiv(last, first), One)

computeTwr(unitsIn, navIn) ==
  IF \A i \in 1..Len(navIn) : ~validDay(unitsIn, navIn, i) THEN NullNum
  ELSE twrOf(firstValid(unitsIn, navIn), lastValidIn(unitsIn, Reverse(navIn)))

---------------------------------------------------------------------------
(* The series handed to combineSeries, a day at a time, and the run of     *)
(* combineSeries and computeTwr over them.                                 *)

MaxDays == 3

MaxNearZeroDays == 3

SeriesDay(mv, flow) == [mv |-> mv, flow |-> flow]

\* Days of an ordinary position: a purchase, appreciation, a missing price
\* (market value 0), withdrawals, an unknown market value, a short position.
OrdinaryDays ==
  { SeriesDay(Num(100), Num(-100)),
    SeriesDay(Num(150), Num(0)),
    SeriesDay(Num(0), Num(-100)),
    SeriesDay(Num(0), Num(50)),
    SeriesDay(Num(150), Num(50)),
    SeriesDay(NullNum, Num(-100)),
    SeriesDay(Num(-50), Num(-100)),
    SeriesDay(Num(100), Num(200)) }

\* Days of a position whose value has all but vanished.
NearZeroDays ==
  { SeriesDay(RatOf(1, 40000), Num(-1)),
    SeriesDay(RatOf(1, 40000), Num(0)),
    SeriesDay(RatOf(1, 40000), Num(1)) }

SeriesFamilies ==
  { [days |-> OrdinaryDays, maxDays |-> MaxDays],
    [days |-> NearZeroDays, maxDays |-> MaxNearZeroDays] }

InSeriesFamily(fam) ==
  \A i \in 1..Len(marketValues) : SeriesDay(marketValues[i], cashflows[i]) \in fam.days

\* The ledger builder is not running.
LedgerIdle ==
  /\ activityRows = <<>>
  /\ positionRows = <<>>
  /\ model = NoModel
  /\ phase = "idle"

SeriesInit ==
  /\ LedgerIdle
  /\ PerfIdle
  /\ ServerIdle
  /\ CacheIdle
  /\ XirrIdle
  /\ TimelineIdle
  /\ marketValues = <<>>
  /\ cashflows = <<>>
  /\ dayIndex = 0
  /\ unitPrice = One
  /\ unitCount = Zero
  /\ nav = <<>>
  /\ units = <<>>
  /\ divisors = <<>>
  /\ twr = NullNum
  /\ seriesPhase = "input"

\* One more day of the two series.
ReadSeriesDay ==
  /\ seriesPhase = "input"
  /\ \E fam \in SeriesFamilies :
       /\ InSeriesFamily(fam)
       /\ Len(marketValues) < fam.maxDays
       /\ \E day \in fam.days :
            /\ marketValues' = Append(marketValues, day.mv)
            /\ cashflows' = Append(cashflows, day.flow)
  /\ UNCHANGED <<dayIndex, unitPrice, unitCount, nav, units, divisors, twr, seriesPhase>>
  /\ UNCHANGED otherThanSeries

\* combineSeries is entered: nav = [], units = [], unitPrice = 1, unitCount = 0.
CombineSeriesEnter ==
  /\ seriesPhase = "input"
  /\ seriesPhase' = "combine"
  /\ dayIndex' = 0
  /\ unitPrice' = One
  /\ unitCount' = Zero
  /\ nav' = <<>>
  /\ units' = <<>>
  /\ divisors' = <<>>
  /\ UNCHANGED <<marketValues, cashflows, twr>>
  /\ UNCHANGED otherThanSeries

\* One iteration of the loop of combineSeries.
CombineSeriesDay ==
  /\ seriesPhase = "combine"
  /\ dayIndex < Len(marketValues)
  /\ dayIndex' = dayIndex + 1
  /\ unitCount' = countAfterFlow(unitPrice, unitCount, cashflows[dayIndex + 1])
  /\ unitPrice' = dayPrice(unitPrice, unitCount, marketValues[dayIndex + 1],
                           cashflows[dayIndex + 1])
  /\ nav' = Append(nav, unitPrice')
  /\ units' = Append(units, unitCount')
  /\ divisors' = divisors \o divisorOfDay(unitPrice, cashflows[dayIndex + 1])
  /\ UNCHANGED <<marketValues, cashflows, twr, seriesPhase>>
  /\ UNCHANGED otherThanSeries

\* combineSeries returns { nav, units } and computeTwr(units, nav) is taken.
ComputeTwr ==
  /\ seriesPhase = "combine"
  /\ dayIndex = Len(marketValues)
  /\ twr' = computeTwr(units, nav)
  /\ seriesPhase' = "done"
  /\ UNCHANGED <<marketValues, cashflows, dayIndex, unitPrice, unitCount, nav, units,
                 divisors>>
  /\ UNCHANGED otherThanSeries

SeriesNext == ReadSeriesDay \/ CombineSeriesEnter \/ CombineSeriesDay \/ ComputeTwr

SpecSeries == SeriesInit /\ [][SeriesNext]_vars

SeriesDone == seriesPhase = "done"

---------------------------------------------------------------------------
(* C11 (as stated): combineSeries equals, day by day, the forward fold     *)
(* seeded (1, 0) that applies cashflow < 0 -> unitCount += |cashflow| /    *)
(* unitPrice (unitPrice taken as 1 if ~0); cashflow > 0 -> unitCount -=    *)
(* cashflow / unitPrice, floored at 0; then, if unitCount > 0 and the      *)
(* market value is known, unitPrice = marketValue / unitCount; and in its  *)
(* output units[i] >= 0 on every day and nav[i] * units[i] =               *)
(* marketValue[i] on every day with units[i] > 0.                          *)

\* The divisor of the reference fold's inflow: unitPrice, 1 if it is ~0.
ReferenceInflowDivisor(up) == IF RatLess(RatAbs(up), EPSILON) THEN One ELSE up

\* The reference fold's unitCount after the day's flow.  A positive flow over a
\* unit price of 0 is infinite in JavaScript, and the floor then leaves 0.
ReferenceCount(up, uc, flow) ==
  IF RatLess(flow, Zero) THEN RatAdd(uc, RatDiv(RatAbs(flow), ReferenceInflowDivisor(up)))
  ELSE IF RatLess(Zero, flow)
       THEN IF up = Zero THEN Zero
            ELSE IF RatLess(RatSub(uc, RatDiv(flow, up)), Zero) THEN Zero
            ELSE RatSub(uc, RatDiv(flow, up))
  ELSE uc

\* The unit price an inflow was divided by stays (1 where it was ~0).
ReferencePriceAfterFlow(up, flow) ==
  IF RatLess(flow, Zero) THEN ReferenceInflowDivisor(up) ELSE up

ReferencePrice(up, ucAfter, mv, flow) ==
  IF RatLess(Zero, ucAfter) /\ mv # NullNum THEN RatDiv(mv, ucAfter)
  ELSE ReferencePriceAfterFlow(up, flow)

RECURSIVE ReferenceFold(_, _, _, _, _, _, _)
ReferenceFold(mvs, flows, i, up, uc, navOut, unitsOut) ==
  IF i > Len(mvs) THEN [nav |-> navOut, units |-> unitsOut]
  ELSE ReferenceFold(mvs, flows, i + 1,
                     ReferencePrice(up, ReferenceCount(up, uc, flows[i]), mvs[i], flows[i]),
                     ReferenceCount(up, uc, flows[i]),
                     Append(navOut, ReferencePrice(up, ReferenceCount(up, uc, flows[i]),
                                                   mvs[i], flows[i])),
                     Append(unitsOut, ReferenceCount(up, uc, flows[i])))

Reference == ReferenceFold(marketValues, cashflows, 1, One, Zero, <<>>, <<>>)

C11_EqualsReference == SeriesDone => nav = Reference.nav /\ units = Reference.units

C11_UnitsNeverNegative ==
  SeriesDone => \A i \in 1..Len(units) : ~RatLess(units[i], Zero)

C11_NavTimesUnits ==
  SeriesDone =>
    \A i \in 1..Len(units) :
      RatLess(Zero, units[i]) /\ marketValues[i] # NullNum
        => RatMul(nav[i], units[i]) = marketValues[i]

C11_AsStated == C11_EqualsReference /\ C11_UnitsNeverNegative /\ C11_NavTimesUnits

\* The run and the function agree: the steps are those of combineSeries.
StepsAreCombineSeries ==
  SeriesDone => combineSeries(marketValues, cashflows) = [nav |-> nav, units |-> units]

\* A purchase and a later withdrawal while no price is known (market value 0):
\* the withdrawal is skipped and the units stay at 100, the fold leaves 0.
C11_Divergence ==
  /\ SeriesDone
  /\ marketValues = <<Num(0), Num(0)>>
  /\ cashflows = <<Num(-100), Num(50)>>
  /\ units = <<Num(100), Num(100)>>
  /\ Reference.units = <<Num(100), Zero>>

---------------------------------------------------------------------------
(* C12 (as stated): in no step of combineSeries is a cash flow, inflow or  *)
(* outflow, divided by a unit price whose absolute value is below          *)
(* EPSILON.                                                                *)
C12_NoNearZeroDivisor ==
  \A i \in 1..Len(divisors) : ~RatLess(RatAbs(divisors[i]), EPSILON)

\* The part that holds: an inflow is never divided by such a price.
C12_InflowDivisorSafe ==
  seriesPhase = "combine" /\ dayIndex < Len(marketValues)
    /\ isInflow(cashflows[dayIndex + 1])
    => ~RatLess(RatAbs(divisorOfDay(unitPrice, cashflows[dayIndex + 1])[1]), EPSILON)

\* A withdrawal of 1 is divided by a unit price of 1/1600040000.
C12_Divergence ==
  /\ seriesPhase = "combine"
  /\ dayIndex = 3
  /\ cashflows = <<Num(-1), Num(-1), Num(1)>>
  /\ divisors = <<One, RatOf(1, 40000), RatOf(1, 1600040000)>>
  /\ units = <<Num(1), Num(40001), Zero>>

---------------------------------------------------------------------------
(* C13: computeTwr returns nav[last] / nav[first] - 1, first and last      *)
(* being the earliest and the latest day with units > EPSILON and nav >    *)
(* EPSILON, and null when there is no such day -- in particular for a      *)
(* series without a contribution and for a series whose market values are  *)
(* all zero.                                                               *)
ValidDays == {i \in 1..Len(nav) : RatLess(EPSILON, units[i]) /\ RatLess(EPSILON, nav[i])}

NoContribution == \A i \in 1..Len(cashflows) : ~RatLess(cashflows[i], Zero)

AllMarketValuesZero == \A i \in 1..Len(marketValues) : marketValues[i] = Zero

C13_TwrBetweenValidDays ==
  SeriesDone =>
    /\ ValidDays = {} => twr = NullNum
    /\ ValidDays # {} =>
         twr = RatSub(RatDiv(nav[SetMax(ValidDays)], nav[SetMin(ValidDays)]), One)
    /\ NoContribution \/ AllMarketValuesZero => twr = NullNum

\* The valid days are strictly inside the index, and the unit price moved.
C13_Witness ==
  /\ SeriesDone
  /\ ValidDays # {}
  /\ SetMin(ValidDays) < SetMax(ValidDays)
  /\ SetMax(ValidDays) < Len(nav)
  /\ twr # NullNum
  /\ twr # Zero

\* A contribution whose market value is zero on every day: undetermined.
C13_WitnessUndetermined ==
  /\ SeriesDone
  /\ Len(nav) = 3
  /\ AllMarketValuesZero
  /\ ~NoContribution
  /\ twr = NullNum

---------------------------------------------------------------------------
(* Daily timeline constructor: dateRange, buildSharesSeries,               *)
(* buildCashflowSeries and the price series of computePortfolioPerformance.*)
(* A day is its day number; the index is a sequence of consecutive days.   *)

\* normalizeDate(value): null (NullDate) for a missing date, else the day.
normalizeDate(value) == value

\* eachDayOfInterval({ start, end }) for start <= end, [] without a start or an end.
dateRange(start, end) ==
  IF normalizeDate(start) = NullDate \/ normalizeDate(end) = NullDate THEN <<>>
  ELSE [i \in 1..(end - start + 1) |-> start + i - 1]

\* Mutant: history before the index is dropped like history after it.
snapKeyInsideOnly(snap, dates) ==
  IF normalizeDate(snap.date) = NullDate THEN 0
  ELSE IF snap.date < dates[1] THEN 0
  ELSE IF snap.date > dates[Len(dates)] THEN 0
  ELSE snap.date

\* The key under which buildSharesSeries stores a snapshot, 0 if it stores none:
\* history before the index lands on its first day, history after it is ignored.
snapKey(snap, dates) ==
  IF normalizeDate(snap.date) = NullDate THEN 0
  ELSE IF snap.date < dates[1] THEN dates[1]
  ELSE IF snap.date > dates[Len(dates)] THEN 0
  ELSE snap.date

snapsAt(history, dates, day) ==
  {k \in 1..Len(history) : snapKey(history[k], dates) = day}

\* The days j <= i of the index for which the map has a key.
sharesKeysUpTo(history, dates, i) ==
  {j \in 1..i : snapsAt(history, dates, dates[j]) # {}}

\* map.get(key): the last snapshot stored under the key.
sharesStored(history, dates, day) == history[SetMax(snapsAt(history, dates, day))].shares

\* out[i]: the value of the latest key up to day i, 0 before the first.
sharesCarried(history, dates, i) ==
  IF sharesKeysUpTo(history, dates, i) = {} THEN 0
  ELSE sharesStored(history, dates, dates[SetMax(sharesKeysUpTo(history, dates, i))])

\* if (!map.size && ledger.currentShares > 0) out.fill(ledger.currentShares);
sharesFilled(ledger, dates, i) ==
  IF sharesKeysUpTo(ledger.shareHistory, dates, Len(dates)) = {} /\ ledger.currentShares > 0
  THEN ledger.currentShares
  ELSE sharesCarried(ledger.shareHistory, dates, i)

buildSharesSeries(ledger, dates) ==
  [i \in 1..Len(dates) |-> Num(sharesFilled(ledger, dates, i))]

\* The cash flows buildCashflowSeries adds up for a day of the index.
flowsOn(flows, day) ==
  {k \in 1..Len(flows) :
     /\ flows[k].external
     /\ ~RatLess(RatAbs(Num(flows[k].amount)), EPSILON)
     /\ normalizeDate(flows[k].date) # NullDate
     /\ flows[k].date = day}

RECURSIVE SumAmounts(_, _)
SumAmounts(flows, ks) ==
  IF ks = {} THEN 0
  ELSE flows[SetMax(ks)].amount + SumAmounts(flows, ks \ {SetMax(ks)})

\* Mutant: a day keeps its last flow instead of the sum of its flows.
buildCashflowSeriesLastWins(ledger, dates) ==
  [i \in 1..Len(dates) |->
     IF flowsOn(ledger.cashflows, dates[i]) = {} THEN Zero
     ELSE Num(ledger.cashflows[SetMax(flowsOn(ledger.cashflows, dates[i]))].amount)]

\* map.set(key, (map.get(key) || 0) + cf.amount); dates.map(d => map.get(...) || 0)
buildCashflowSeries(ledger, dates) ==
  [i \in 1..Len(dates) |-> Num(SumAmounts(ledger.cashflows, flowsOn(ledger.cashflows, dates[i])))]

\* priceSeriesMap: the last entry of the raw series for a day wins.
entriesOn(raw, day) == {k \in 1..Len(raw) : normalizeDate(raw[k].date) = day}

priceMapped(raw, day) ==
  IF entriesOn(raw, day) = {} THEN NullNum ELSE raw[SetMax(entriesOn(raw, day))].close

\* The series after the live quote has seeded the last day.
priceSeeded(raw, dates, currentPrice, i) ==
  IF i = Len(dates) /\ priceMapped(raw, dates[i]) = NullNum /\ currentPrice # NullNum
  THEN currentPrice
  ELSE priceMapped(raw, dates[i])

seededSeries(raw, dates, currentPrice) ==
  [i \in 1..Len(dates) |-> priceSeeded(raw, dates, currentPrice, i)]

knownUpTo(series, i) == {j \in 1..i : series[j] # NullNum}

knownFrom(series, i) == {j \in i..Len(series) : series[j] # NullNum}

\* Forward fill: the last price seen, null before the first.
forwardFill(series) ==
  [i \in 1..Len(series) |->
     IF knownUpTo(series, i) = {} THEN NullNum ELSE series[SetMax(knownUpTo(series, i))]]

\* Mutant: the leading gap is left as it is.
backFillNot(series) == series

\* Back fill of what is still null: the next price, null if there is none.
backFill(series) ==
  [i \in 1..Len(series) |->
     IF knownFrom(series, i) = {} THEN NullNum ELSE series[SetMin(knownFrom(series, i))]]

priceSeriesOf(raw, dates, currentPrice) ==
  backFill(forwardFill(seededSeries(raw, dates, currentPrice)))

\* price == null ? 0 : price * sharesSeries[idx]
marketValueSeriesOf(prices, shares) ==
  [i \in 1..Len(prices) |->
     IF prices[i] = NullNum THEN Zero ELSE RatMul(prices[i], shares[i])]

---------------------------------------------------------------------------
(* Price providers (priceProviders.js) against a market: what Yahoo would  *)
(* answer for each cleaned symbol.  quoteFault is "none", "absent" (the    *)
(* answer has no quote for the symbol) or "throws" (the symbol makes the   *)
(* quote call throw); historyFault says that historical() throws.          *)

\* s.replace('.', '-'): the first dot only.
ReplaceFirstDot(s, dots) ==
  IF dots = {} THEN s ELSE [s EXCEPT ![SetMin(dots)] = "-"]

DotIndexes(s) == {i \in 1..Len(s) : s[i] = "."}

StripDollar(s) == IF s # <<>> /\ s[1] = "$" THEN Tail(s) ELSE s

cleanUpper(u) ==
  IF u = <<>> \/ u = StrCASH THEN <<>>
  ELSE ReplaceFirstDot(StripDollar(u), DotIndexes(StripDollar(u)))

\* cleanSymbol(s): <<>> is null.
cleanSymbol(s) == IF s = <<>> THEN <<>> ELSE cleanUpper(ToUpperCase(Trim(s)))

cleanedOf(symbols) == {cleanSymbol(raw) : raw \in symbols} \ {<<>>}

\* yahooFinance.quote(need) throws as one call.
quoteThrows(need, yahooData) ==
  \E sym \in need : sym \in DOMAIN yahooData /\ yahooData[sym].quoteFault = "throws"

\* result[cs] ?? null after the batch call, the cache being empty.
quoteResult(cs, need, yahooData) ==
  IF quoteThrows(need, yahooData) THEN NullNum
  ELSE IF cs \in DOMAIN yahooData /\ yahooData[cs].quoteFault = "none" THEN yahooData[cs].price
  ELSE NullNum

getCurrentPrices(symbols, yahooData) ==
  [raw \in symbols |->
     IF cleanSymbol(raw) = <<>> THEN NullNum
     ELSE quoteResult(cleanSymbol(raw), cleanedOf(symbols), yahooData)]

\* One symbol of Promise.all: [] when historical() throws, else the entries
\* with a close.
historyResult(cs, yahooData) ==
  IF cs \notin DOMAIN yahooData \/ yahooData[cs].historyFault THEN <<>>
  ELSE SelectSeq(yahooData[cs].history, LAMBDA entry : entry.close # NullNum)

getPriceHistory(symbols, yahooData) ==
  [cs \in cleanedOf(symbols) |-> historyResult(cs, yahooData)]

\* histories[symbol] || []
rawSeriesOf(histories, symbol) ==
  IF symbol \in DOMAIN histories THEN histories[symbol] ELSE <<>>

---------------------------------------------------------------------------
(* computePortfolioPerformance: the per-symbol loop and the rollup.        *)

YearDays == 365

\* const start = model.startDate || addDays(new Date(), -365);
startOf(m, end) == IF m.startDate = NullDate THEN end - YearDays ELSE m.startDate

dateIndexOf(m, end) == dateRange(startOf(m, end), end)

\* The series of one symbol of the loop.
symbolSeries(shares, prices, flows, mvs, combined) ==
  [ shares |-> shares, prices |-> prices, cashflows |-> flows, marketValues |-> mvs,
    nav |-> combined.nav, units |-> combined.units ]

seriesOfPrices(shares, prices, flows) ==
  symbolSeries(shares, prices, flows, marketValueSeriesOf(prices, shares),
               combineSeries(marketValueSeriesOf(prices, shares), flows))

seriesOf(ledger, dates, currentPrice, raw) ==
  seriesOfPrices(buildSharesSeries(ledger, dates),
                 priceSeriesOf(raw, dates, currentPrice),
                 buildCashflowSeries(ledger, dates))

\* x || fallback for a number: 0 and null give the fallback.
OrElse(x, fallback) == IF x = NullNum \/ x = Zero THEN fallback ELSE x

\* One entry of buildHistoryFrame.
historyEntry(sr, i) ==
  [ shares |-> sr.shares[i],
    price |-> sr.prices[i],
    market_value |-> IF sr.prices[i] = NullNum THEN NullNum
                     ELSE RatMul(sr.prices[i], sr.shares[i]),
    cashflow |-> sr.cashflows[i],
    contribution |-> IF isInflow(sr.cashflows[i]) THEN RatAbs(sr.cashflows[i]) ELSE Zero,
    withdrawal |-> IF RatLess(EPSILON, sr.cashflows[i]) THEN sr.cashflows[i] ELSE Zero,
    unit_nav |-> OrElse(sr.nav[i], NullNum),
    units |-> sr.units[i] ]

buildHistoryFrame(sr) == [i \in 1..Len(sr.nav) |-> historyEntry(sr, i)]

\* currentPrice != null ? currentPrice * ledger.currentShares
\*                      : marketValueSeries[marketValueSeries.length - 1] || 0
rowMarketValue(ledger, currentPrice, mvs) ==
  IF currentPrice # NullNum THEN RatMul(currentPrice, Num(ledger.currentShares))
  ELSE IF mvs = <<>> THEN Zero
  ELSE mvs[Len(mvs)]

Hundred == <<100, 1>>

\* totalInvested > 0 ? (x / totalInvested) * 100 : null
percentOf(x, invested) ==
  IF RatLess(Zero, invested) THEN RatMul(RatDiv(x, invested), Hundred) ELSE NullNum

timesHundred(x) == IF x = NullNum THEN NullNum ELSE RatMul(x, Hundred)

\* dividends > 0 && totalInvested > 0 && marketGain < 0 && dividends >= totalInvested * 0.8
rocFlagOf(dividends, invested, gain) ==
  /\ RatLess(Zero, dividends)
  /\ RatLess(Zero, invested)
  /\ RatLess(gain, Zero)
  /\ ~RatLess(dividends, RatMul(invested, <<4, 5>>))

\* The external flows of the ledger beyond EPSILON, then the closing value on
\* the end day unless it is within EPSILON of 0.
irrFlowsOf(flows) ==
  SelectSeq(flows, LAMBDA cf : cf.external /\ RatLess(EPSILON, RatAbs(Num(cf.amount))))

flowPairs(sel) == [k \in 1..Len(sel) |-> <<normalizeDate(sel[k].date), Num(sel[k].amount)>>]

flowsForIrr(flows, end, mv) ==
  flowPairs(irrFlowsOf(flows))
    \o (IF RatLess(EPSILON, RatAbs(mv)) THEN <<<<end, mv>>>> ELSE <<>>)

RECURSIVE SumFlowsOn(_, _, _)
SumFlowsOn(flows, day, k) ==
  IF k > Len(flows) THEN Zero
  ELSE IF flows[k][1] = day /\ ~RatLess(RatAbs(flows[k][2]), EPSILON)
       THEN RatAdd(flows[k][2], SumFlowsOn(flows, day, k + 1))
       ELSE SumFlowsOn(flows, day, k + 1)

flowDays(flows) ==
  {flows[k][1] : k \in {j \in 1..Len(flows) :
                          flows[j][1] # NullDate /\ ~RatLess(RatAbs(flows[j][2]), EPSILON)}}

RECURSIVE aggregateDays(_, _)
aggregateDays(flows, days) ==
  IF days = {} THEN <<>>
  ELSE <<<<SetMin(days), SumFlowsOn(flows, SetMin(days), 1)>>>>
         \o aggregateDays(flows, days \ {SetMin(days)})

\* aggregateCashflows(flows): one entry per day, in date order.
aggregateCashflows(flows) == aggregateDays(flows, flowDays(flows))

\* The row pushed for a symbol; irr_flows is the argument of computeXirr, of
\* which irr_percent is a function.
rowOf(symbol, ledger, currentPrice, invested, dividends, mv, sr, end) ==
  [ symbol |-> symbol,
    shares |-> ledger.currentShares,
    closed |-> ledger.closed,
    net_invested_cash |-> invested,
    dividends_received |-> dividends,
    current_price |-> currentPrice,
    market_value |-> mv,
    market_gain_dollars |-> RatSub(mv, invested),
    market_gain_percent |-> percentOf(RatSub(mv, invested), invested),
    dividend_return_percent |-> percentOf(dividends, invested),
    total_return_dollars |-> RatSub(RatAdd(mv, dividends), invested),
    total_return_percent |-> percentOf(RatSub(RatAdd(mv, dividends), invested), invested),
    twr_percent |-> timesHundred(computeTwr(sr.units, sr.nav)),
    irr_flows |-> aggregateCashflows(flowsForIrr(ledger.cashflows, end, mv)),
    roc_flag |-> rocFlagOf(dividends, invested, RatSub(mv, invested)) ]

rowFrom(symbol, ledger, currentPrice, sr, end) ==
  rowOf(symbol, ledger, currentPrice, Num(ledger.effectiveCostBasis),
        Num(ledger.dividendsReceived),
        rowMarketValue(ledger, currentPrice, sr.marketValues), sr, end)

\* The loop over Object.keys(model.symbols); the order of the keys is not
\* kept, rows and histories are held per symbol and missing_prices as a set.
seriesFor(m, end, quotes, histories, sym) ==
  seriesOf(m.symbols[sym], dateIndexOf(m, end), quotes[sym],
           rawSeriesOf(histories, sym))

rowsOf(m, end, quotes, histories) ==
  [sym \in DOMAIN m.symbols |->
     rowFrom(sym, m.symbols[sym], quotes[sym],
             seriesFor(m, end, quotes, histories, sym), end)]

historiesOf(m, end, quotes, histories) ==
  [sym \in DOMAIN m.symbols |->
     buildHistoryFrame(seriesFor(m, end, quotes, histories, sym))]

\* if (currentPrice == null) missingPrices.push(symbol);
missingPricesOf(m, quotes) ==
  {sym \in DOMAIN m.symbols : quotes[sym] = NullNum}

RECURSIVE SumOver(_, _, _)
SumOver(rows, field, syms) ==
  IF syms = {} THEN Zero
  ELSE RatAdd(rows[CHOOSE sym \in syms : TRUE][field],
              SumOver(rows, field, syms \ {CHOOSE sym \in syms : TRUE}))

\* Mutant: the rollup takes every row, closed ones included.
activeRowsAll(rows) == DOMAIN rows

\* const activeRows = rows.filter(row => !row.closed);
activeRows(rows) == {sym \in DOMAIN rows : ~rows[sym].closed}

RECURSIVE SumSeriesAt(_, _, _, _)
SumSeriesAt(srs, field, i, syms) ==
  IF syms = {} THEN Zero
  ELSE RatAdd(srs[CHOOSE sym \in syms : TRUE][field][i],
              SumSeriesAt(srs, field, i, syms \ {CHOOSE sym \in syms : TRUE}))

\* overallMV / overallCF, day by day over every symbol.
overallSeries(srs, field, n) == [i \in 1..n |-> SumSeriesAt(srs, field, i, DOMAIN srs)]

overallFlows(cf, dates, end, mv) ==
  SelectSeq([i \in 1..Len(dates) |-> <<dates[i], cf[i]>>],
            LAMBDA f : RatLess(EPSILON, RatAbs(f[2])))
    \o <<<<end, mv>>>>

overallOf(rows, active, invested, dividends, mv, combined, cf, dates, end) ==
  [ invested |-> invested,
    dividends |-> dividends,
    dividends_lifetime |-> SumOver(rows, "dividends_received", DOMAIN rows),
    market_value |-> mv,
    market_gain_dollars |-> RatSub(mv, invested),
    market_gain_percent |-> percentOf(RatSub(mv, invested), invested),
    dividend_return_percent |-> percentOf(dividends, invested),
    total_return_dollars |-> RatSub(RatAdd(mv, dividends), invested),
    total_return_percent |-> percentOf(RatSub(RatAdd(mv, dividends), invested), invested),
    total_return_dollars_lifetime |-> SumOver(rows, "total_return_dollars", DOMAIN rows),
    twr_percent |-> timesHundred(computeTwr(combined.units, combined.nav)),
    irr_flows |-> overallFlows(cf, dates, end, mv) ]

overallFrom(rows, active, mvs, cf, dates, end) ==
  overallOf(rows, active,
            SumOver(rows, "net_invested_cash", active),
            SumOver(rows, "dividends_received", active),
            SumOver(rows, "market_value", active),
            combineSeries(mvs, cf), cf, dates, end)

overallWith(rows, srs, dates, end) ==
  overallFrom(rows, activeRows(rows),
              overallSeries(srs, "marketValues", Len(dates)),
              overallSeries(srs, "cashflows", Len(dates)), dates, end)

EmptyPerformance ==
  [ rows |-> <<>>, overall |-> <<>>, symbol_histories |-> <<>>, missing_prices |-> {} ]

performanceOf(m, end, quotes, histories) ==
  [ rows |-> rowsOf(m, end, quotes, histories),
    overall |->
      overallWith(rowsOf(m, end, quotes, histories),
                  [sym \in DOMAIN m.symbols |->
                     seriesFor(m, end, quotes, histories, sym)],
                  dateIndexOf(m, end), end),
    symbol_histories |-> historiesOf(m, end, quotes, histories),
    missing_prices |-> missingPricesOf(m, quotes) ]

\* if (!symbols.length) return { rows: [], overall: {}, ... } before any lookup.
computePortfolioPerformance(m, end, yahooData) ==
  IF DOMAIN m.symbols = {} THEN EmptyPerformance
  ELSE performanceOf(m, end, getCurrentPrices(DOMAIN m.symbols, yahooData),
                     getPriceHistory(DOMAIN m.symbols, yahooData))

---------------------------------------------------------------------------
(* A request for the performance of an uploaded portfolio: the model is    *)
(* built from the two batches, the two lookups run against the market, the *)
(* result is computed.  The process has just started: both caches of the   *)
(* price providers are empty.                                              *)

\* The purchase of 10 shares at $10, the same purchase at twice the price, a
\* position sold at a gain next to one still held and paying a dividend, a
\* position known from the holdings file only, a file of cash rows, a second
\* purchase on a day a request is made, a first purchase on that day, and the
\* purchase of a share class whose ticker has a dot.
\* Every scenario but the cash one has a dated event, so the index starts at
\* the model's startDate and is a few days long.
SymDot == <<"B",".","B">>

\* The ticker Yahoo lists the share class under.
YahooDot == <<"B","-","B">>

PerfScenarios ==
  { [ activity |-> <<ActivityRow(ActBuy, SymA, DescAcme, <<"1","0">>, <<"-","1","0","0">>, 401)>>,
      holdings |-> <<>> ],
    [ activity |-> <<ActivityRow(ActBuy, SymA, DescAcme, <<"1","0">>, <<"-","2","0","0">>, 401)>>,
      holdings |-> <<>> ],
    [ activity |->
        << ActivityRow(ActBuy, SymA, DescAcme, <<"1","0">>, <<"-","1","0","0">>, 401),
           ActivityRow(ActSell, SymA, DescAcme, <<"-","1","0">>, <<"1","5","0">>, 402),
           ActivityRow(ActBuy, SymB, <<>>, <<"5">>, <<"-","5","0">>, 401),
           ActivityRow(ActDividend, SymB, <<>>, <<>>, <<"5">>, 402) >>,
      holdings |-> <<HoldingRow(SymB, <<>>, <<"5">>, <<"$","5","0">>)>> ],
    [ activity |-> <<ActivityRow(ActBuy, SymA, DescAcme, <<"1","0">>, <<"-","1","0","0">>, 401)>>,
      holdings |-> <<HoldingRow(SymB, <<>>, <<"5">>, <<"$","5","0">>)>> ],
    [ activity |-> <<ActivityRow(ActBuy, StrCASH, <<>>, <<"1","0">>, <<"1","0","0">>, 401)>>,
      holdings |-> <<>> ],
    [ activity |->
        << ActivityRow(ActBuy, SymA, DescAcme, <<"1","0">>, <<"-","1","0","0">>, 401),
           ActivityRow(ActBuy, SymA, DescAcme, <<"1","0">>, <<"-","1","5","0">>, 403) >>,
      holdings |-> <<>> ],
    [ activity |-> <<ActivityRow(ActBuy, SymA, DescAcme, <<"1","0">>, <<"-","1","5","0">>, 403)>>,
      holdings |-> <<>> ],
    [ activity |-> <<ActivityRow(ActBuy, SymDot, <<>>, <<"1","0">>, <<"-","1","0","0">>, 401)>>,
      holdings |-> <<>> ] }

\* The days a request is made on.
RequestDays == {403, 404}

PricePoint(day, close) == [date |-> day, close |-> close]

\* What Yahoo has on a symbol: the live quote and the daily closes, complete
\* or with days missing.
QuoteOf(sym) == IF sym = SymA THEN Num(15) ELSE Num(20)

HistoriesOf(sym) ==
  IF sym = SymA
  THEN { <<PricePoint(401, Num(10)), PricePoint(402, Num(12)), PricePoint(403, Num(15))>>,
         <<PricePoint(402, Num(12))>> }
  ELSE { <<PricePoint(401, Num(10)), PricePoint(402, Num(10)), PricePoint(403, Num(20))>>,
         <<PricePoint(401, Num(10))>> }

QuoteFaults == {"none", "absent", "throws"}

MarketOf(sym) ==
  { [ price |-> QuoteOf(sym), quoteFault |-> qf, history |-> h, historyFault |-> hf ] :
      qf \in QuoteFaults, h \in HistoriesOf(sym), hf \in BOOLEAN }

\* Yahoo has the share class, quote and closes, and its lookups succeed.
DotMarket ==
  [ price |-> Num(20), quoteFault |-> "none",
    history |-> <<PricePoint(401, Num(10)), PricePoint(402, Num(10)), PricePoint(403, Num(20))>>,
    historyFault |-> FALSE ]

Markets ==
  { (SymA :> a) @@ (SymB :> b) @@ (YahooDot :> DotMarket) :
      a \in MarketOf(SymA), b \in MarketOf(SymB) }

PerfInit ==
  /\ \E sc \in PerfScenarios :
       /\ activityRows = sc.activity
       /\ positionRows = sc.holdings
  /\ model = NoModel
  /\ phase = "input"
  /\ SeriesIdle
  /\ ServerIdle
  /\ CacheIdle
  /\ XirrIdle
  /\ TimelineIdle
  /\ market \in Markets
  /\ today \in RequestDays
  /\ currentPrices = <<>>
  /\ priceHistory = <<>>
  /\ performance = <<>>
  /\ perfPhase = "model"

\* if (!symbols.length) return { rows: [], overall: {}, ... };
ReturnEmptyPerformance ==
  /\ phase = "built"
  /\ perfPhase = "model"
  /\ DOMAIN model.symbols = {}
  /\ performance' = EmptyPerformance
  /\ perfPhase' = "done"
  /\ UNCHANGED <<market, today, currentPrices, priceHistory>>
  /\ UNCHANGED <<ledgerVars, otherThanPerf>>

\* const currentPrices = await getCurrentPrices(symbols);
GetCurrentPrices ==
  /\ phase = "built"
  /\ perfPhase = "model"
  /\ DOMAIN model.symbols # {}
  /\ currentPrices' = getCurrentPrices(DOMAIN model.symbols, market)
  /\ perfPhase' = "quotes"
  /\ UNCHANGED <<market, today, priceHistory, performance>>
  /\ UNCHANGED <<ledgerVars, otherThanPerf>>

\* const priceHistory = await getPriceHistory(symbols, start, end, '1d');
GetPriceHistory ==
  /\ perfPhase = "quotes"
  /\ priceHistory' = getPriceHistory(DOMAIN model.symbols, market)
  /\ perfPhase' = "history"
  /\ UNCHANGED <<market, today, currentPrices, performance>>
  /\ UNCHANGED <<ledgerVars, otherThanPerf>>

\* The rest of computePortfolioPerformance, from dateRange to the return.
ComputePortfolioPerformance ==
  /\ perfPhase = "history"
  /\ performance' = performanceOf(model, today, currentPrices, priceHistory)
  /\ perfPhase' = "done"
  /\ UNCHANGED <<market, today, currentPrices, priceHistory>>
  /\ UNCHANGED <<ledgerVars, otherThanPerf>>

PerfNext ==
  \/ BuildPortfolioModel
  \/ ReturnEmptyPerformance
  \/ GetCurrentPrices
  \/ GetPriceHistory
  \/ ComputePortfolioPerformance

SpecPerf == PerfInit /\ [][PerfNext]_vars

PerfDone == perfPhase = "done" /\ DOMAIN model.symbols # {}

\* The series and the row of a symbol of the finished computation.
SeriesOfSymbol(sym) == seriesFor(model, today, currentPrices, priceHistory, sym)

RowOf(sym) == performance.rows[sym]

ExternalFlows(sym) == irrFlowsOf(model.symbols[sym].cashflows)

\* The symbol's only external cash flow is one purchase, made on the first day
\* of the index; its share count is the same positive number on every day, and
\* its price is known.
SingleBuyCase(sym) ==
  /\ Len(ExternalFlows(sym)) = 1
  /\ ExternalFlows(sym)[1].type = "buy"
  /\ ExternalFlows(sym)[1].amount < 0
  /\ ExternalFlows(sym)[1].date = dateIndexOf(model, today)[1]
  /\ \A i \in 1..Len(SeriesOfSymbol(sym).shares) :
       /\ SeriesOfSymbol(sym).shares[i] = SeriesOfSymbol(sym).shares[1]
       /\ RatLess(Zero, SeriesOfSymbol(sym).shares[i])
  /\ SeriesOfSymbol(sym).prices[1] # NullNum

\* (price[last] / price[first] - 1) * 100 of the filled price series.
PriceAppreciationPercent(prices) ==
  RatMul(RatSub(RatDiv(prices[Len(prices)], prices[1]), One), Hundred)

(* C14: for every symbol of a finished computation whose only external     *)
(* cash flow is a single purchase on the first index day and whose share   *)
(* count is constant and positive with a known price, twr_percent equals   *)
(* (price[last] / price[first] - 1) * 100 of the filled price series,      *)
(* whatever was paid.                                                      *)
C14_SingleBuyTwrIsPriceAppreciation ==
  PerfDone =>
    \A sym \in DOMAIN model.symbols :
      SingleBuyCase(sym) =>
        RowOf(sym).twr_percent = PriceAppreciationPercent(SeriesOfSymbol(sym).prices)

\* C14 witness: 10 shares bought for $100 when the close is $10, the price at
\* $15 on the last day: twr_percent is 50.
C14_Witness ==
  /\ PerfDone
  /\ SymA \in DOMAIN model.symbols
  /\ SingleBuyCase(SymA)
  /\ ExternalFlows(SymA)[1].amount = -100
  /\ SeriesOfSymbol(SymA).shares[1] = Num(10)
  /\ SeriesOfSymbol(SymA).prices[1] = Num(10)
  /\ SeriesOfSymbol(SymA).prices[Len(SeriesOfSymbol(SymA).prices)] = Num(15)
  /\ RowOf(SymA).twr_percent = Num(50)

\* The same purchase for $200: twr_percent is 50 as well.
C14_WitnessOtherAmount ==
  /\ PerfDone
  /\ SymA \in DOMAIN model.symbols
  /\ SingleBuyCase(SymA)
  /\ ExternalFlows(SymA)[1].amount = -200
  /\ SeriesOfSymbol(SymA).prices[1] = Num(10)
  /\ RowOf(SymA).twr_percent = Num(50)

\* The symbols whose row says closed = false, and all of them.
OpenSymbols == {sym \in DOMAIN performance.rows : ~RowOf(sym).closed}

AllSymbols == DOMAIN performance.rows

Overall == performance.overall

OpenSum(field) == SumOver(performance.rows, field, OpenSymbols)

LifetimeSum(field) == SumOver(performance.rows, field, AllSymbols)

(* C17: in the result of a finished computation, overall.invested,         *)
(* overall.dividends and overall.market_value are the sums of the rows     *)
(* with closed = false, the gains and percentages of the rollup derive     *)
(* from those three, and dividends_lifetime and                            *)
(* total_return_dollars_lifetime are the sums over every row, closed ones  *)
(* included.                                                               *)
C17_RollupOpenOnlyLifetimeAll ==
  PerfDone =>
    /\ Overall.invested = OpenSum("net_invested_cash")
    /\ Overall.dividends = OpenSum("dividends_received")
    /\ Overall.market_value = OpenSum("market_value")
    /\ Overall.market_gain_dollars =
         RatSub(OpenSum("market_value"), OpenSum("net_invested_cash"))
    /\ Overall.total_return_dollars =
         RatSub(RatAdd(OpenSum("market_value"), OpenSum("dividends_received")),
                OpenSum("net_invested_cash"))
    /\ Overall.market_gain_percent =
         percentOf(Overall.market_gain_dollars, OpenSum("net_invested_cash"))
    /\ Overall.dividend_return_percent =
         percentOf(OpenSum("dividends_received"), OpenSum("net_invested_cash"))
    /\ Overall.total_return_percent =
         percentOf(Overall.total_return_dollars, OpenSum("net_invested_cash"))
    /\ Overall.dividends_lifetime = LifetimeSum("dividends_received")
    /\ Overall.total_return_dollars_lifetime = LifetimeSum("total_return_dollars")

\* C17 witness: a position sold at a $50 gain next to an open one; the gain is
\* in the lifetime total return and in none of the point-in-time figures.
C17_Witness ==
  /\ PerfDone
  /\ DOMAIN model.symbols = {SymA, SymB}
  /\ RowOf(SymA).closed
  /\ RowOf(SymA).total_return_dollars = Num(50)
  /\ ~RowOf(SymB).closed
  /\ Overall.invested = RowOf(SymB).net_invested_cash
  /\ Overall.market_value = RowOf(SymB).market_value
  /\ Overall.total_return_dollars = RowOf(SymB).total_return_dollars
  /\ Overall.total_return_dollars_lifetime =
       RatAdd(RowOf(SymB).total_return_dollars, Num(50))

\* The lookups that fail for a symbol in the market of the request.
QuoteFails(sym) == market[cleanSymbol(sym)].quoteFault # "none"

HistoryFails(sym) == market[cleanSymbol(sym)].historyFault

LookupFails(sym) == QuoteFails(sym) \/ HistoryFails(sym)

\* The market with the lookups of `sym` succeeding.
Healed(sym) ==
  [market EXCEPT ![cleanSymbol(sym)] =
     [market[cleanSymbol(sym)] EXCEPT !.quoteFault = "none", !.historyFault = FALSE]]

\* The result the request would have had, had the lookups of `sym` succeeded.
HealedPerformance(sym) == computePortfolioPerformance(model, today, Healed(sym))

\* `sym` is the one symbol of the portfolio a lookup fails for.
OnlyFailure(sym) ==
  /\ LookupFails(sym)
  /\ \A other \in DOMAIN model.symbols \ {sym} : ~LookupFails(other)

\* Every price of the symbol's history is null.
NullSeries(sym) ==
  \A i \in 1..Len(performance.symbol_histories[sym]) :
    performance.symbol_histories[sym][i].price = NullNum

SameAsHealed(other, sym) ==
  /\ RowOf(other) = HealedPerformance(sym).rows[other]
  /\ performance.symbol_histories[other] = HealedPerformance(sym).symbol_histories[other]
  /\ other \notin performance.missing_prices

(* C18 as stated: when a lookup fails for exactly one symbol S, the result *)
(* has a row for every symbol, S is in missing_prices, S has a null        *)
(* current price if its quote failed and a null-valued series if its       *)
(* history failed, and the row, series and listing of every other symbol   *)
(* are what they would have been had the lookups of S succeeded.           *)
C18_OnlyFailingSymbolDegraded ==
  PerfDone =>
    \A sym \in DOMAIN model.symbols :
      OnlyFailure(sym) =>
        /\ DOMAIN performance.rows = DOMAIN model.symbols
        /\ sym \in performance.missing_prices
        /\ QuoteFails(sym) => RowOf(sym).current_price = NullNum
        /\ HistoryFails(sym) => NullSeries(sym)
        /\ \A other \in DOMAIN model.symbols \ {sym} : SameAsHealed(other, sym)

\* The part that holds for a failing history lookup: the computation has a
\* row for every symbol and no other symbol is touched.
C18_HistoryFailureLeavesOthers ==
  PerfDone =>
    \A sym \in DOMAIN model.symbols :
      (OnlyFailure(sym) /\ ~QuoteFails(sym)) =>
        /\ DOMAIN performance.rows = DOMAIN model.symbols
        /\ \A other \in DOMAIN model.symbols \ {sym} : SameAsHealed(other, sym)

\* The part that holds for a symbol missing from the quote answer.
C18_AbsentQuoteDegradesOnlyS ==
  PerfDone =>
    \A sym \in DOMAIN model.symbols :
      (OnlyFailure(sym) /\ market[cleanSymbol(sym)].quoteFault = "absent") =>
        /\ sym \in performance.missing_prices
        /\ RowOf(sym).current_price = NullNum
        /\ \A other \in DOMAIN model.symbols \ {sym} : SameAsHealed(other, sym)

\* C18 divergence: only the history lookup of B fails; B is not reported in
\* missing_prices and its series is the live quote on every day.
C18_DivergenceHistory ==
  /\ PerfDone
  /\ DOMAIN model.symbols = {SymA, SymB}
  /\ OnlyFailure(SymB)
  /\ HistoryFails(SymB)
  /\ ~QuoteFails(SymB)
  /\ SymB \notin performance.missing_prices
  /\ \A i \in 1..Len(performance.symbol_histories[SymB]) :
       performance.symbol_histories[SymB][i].price = market[SymB].price

\* C18 divergence: the quote call throws on account of A; B, whose lookups
\* succeed, loses its current price and is reported missing as well.
C18_DivergenceBatch ==
  /\ PerfDone
  /\ DOMAIN model.symbols = {SymA, SymB}
  /\ OnlyFailure(SymA)
  /\ market[SymA].quoteFault = "throws"
  /\ RowOf(SymB).current_price = NullNum
  /\ SymB \in performance.missing_prices
  /\ HealedPerformance(SymA).rows[SymB].current_price = market[SymB].price

---------------------------------------------------------------------------
(* The HTTP server (index.js): uploads, /clear and the two routes served   *)
(* by servePortfolio.  A folder is a function from the names of its files  *)
(* to their contents; of a content only what readManyCsv makes of it is    *)
(* kept: whether it has the header line, and how many data rows follow.    *)

ToLowerChar(c) ==
  IF c \in Range(UpperLetters)
  THEN LowerLetters[CHOOSE i \in 1..26 : UpperLetters[i] = c]
  ELSE c

ToLowerCase(s) == [i \in 1..Len(s) |-> ToLowerChar(s[i])]

EndsWith(s, suffix) ==
  Len(s) >= Len(suffix) /\ SubSeq(s, Len(s) - Len(suffix) + 1, Len(s)) = suffix

DotCsv == <<".","c","s","v">>

\* f.endsWith('.csv')
isCsvName(f) == EndsWith(f, DotCsv)

\* req.file.originalname.toLowerCase().endsWith('.csv')
uploadAccepted(originalname) == EndsWith(ToLowerCase(originalname), DotCsv)

RemoveFiles(folder, gone) == [f \in DOMAIN folder \ gone |-> folder[f]]

\* Mutant: the folder is left as it is.
clearCsvsKeeps(folder) == folder

\* clearCsvs(folder): every file whose name ends in .csv is unlinked.
clearCsvs(folder) == RemoveFiles(folder, {f \in DOMAIN folder : isCsvName(f)})

\* fs.renameSync(req.file.path, dest): the upload takes the original name,
\* replacing a file of that name.
storeFile(folder, name, content) ==
  [f \in DOMAIN folder \cup {name} |-> IF f = name THEN content ELSE folder[f]]

\* The files readManyCsv reads: those named *.csv that have the header line.
readableFiles(folder) == {f \in DOMAIN folder : isCsvName(f) /\ folder[f].header}

RECURSIVE CountRows(_, _)
CountRows(folder, files) ==
  IF files = {} THEN 0
  ELSE folder[CHOOSE f \in files : TRUE].rows
         + CountRows(folder, files \ {CHOOSE f \in files : TRUE})

\* readManyCsv(folder).length
readManyCsv(folder) == CountRows(folder, readableFiles(folder))

\* The rows readManyCsv(folder) returns, by the file they were read from.
rowsRead(folder) == [f \in readableFiles(folder) |-> folder[f]]

Response(route, status, detail) == [route |-> route, status |-> status, detail |-> detail]

\* The bodies of the responses, by what tells them apart.
DetailUploadCsv == "Upload a .csv file"

DetailUploadBoth == "Upload both an activity CSV and a positions CSV first"

DetailOk == "ok"

DetailComputed == "rows, overall, missing_prices"

MaxResponses == 4

FileNames ==
  { <<"a",".","c","s","v">>, <<"b",".","c","s","v">>, <<"A",".","C","S","V">>,
    <<"a",".","t","x","t">> }

FileContents ==
  { [header |-> TRUE, rows |-> 2], [header |-> TRUE, rows |-> 0], [header |-> FALSE, rows |-> 2] }

ServePortfolioRoutes == {"/portfolio", "/recalc"}

\* The server has started: mkdirSync has made the two folders.
ServerInit ==
  /\ LedgerIdle
  /\ SeriesIdle
  /\ PerfIdle
  /\ CacheIdle
  /\ XirrIdle
  /\ TimelineIdle
  /\ uploadsDir = <<>>
  /\ positionsDir = <<>>
  /\ inflight = <<>>
  /\ responses = <<>>

CanRespond == Len(responses) + Len(inflight) < MaxResponses

\* POST /upload
Upload ==
  /\ CanRespond
  /\ \E name \in FileNames, content \in FileContents :
       IF ~uploadAccepted(name)
       THEN /\ responses' = Append(responses, Response("/upload", 400, DetailUploadCsv))
            /\ UNCHANGED uploadsDir
       ELSE /\ uploadsDir' = storeFile(clearCsvs(uploadsDir), name, content)
            /\ responses' = Append(responses, Response("/upload", 200, DetailOk))
  /\ UNCHANGED <<positionsDir, inflight>>
  /\ UNCHANGED otherThanServer

\* POST /upload_positions
UploadPositions ==
  /\ CanRespond
  /\ \E name \in FileNames, content \in FileContents :
       IF ~uploadAccepted(name)
       THEN /\ responses' = Append(responses, Response("/upload_positions", 400, DetailUploadCsv))
            /\ UNCHANGED positionsDir
       ELSE /\ positionsDir' = storeFile(clearCsvs(positionsDir), name, content)
            /\ responses' = Append(responses, Response("/upload_positions", 200, DetailOk))
  /\ UNCHANGED <<uploadsDir, inflight>>
  /\ UNCHANGED otherThanServer

\* POST /clear
Clear ==
  /\ CanRespond
  /\ uploadsDir' = clearCsvs(uploadsDir)
  /\ positionsDir' = clearCsvs(positionsDir)
  /\ responses' = Append(responses, Response("/clear", 200, DetailOk))
  /\ UNCHANGED inflight
  /\ UNCHANGED otherThanServer

\* servePortfolio up to its await: both folders are read; 400 if either has
\* no row, else the summary is computed and the price lookup is awaited, the
\* request holding the rows it read in actRows and posRows.
ServePortfolioBegin ==
  /\ CanRespond
  /\ \E route \in ServePortfolioRoutes :
       IF readManyCsv(uploadsDir) = 0 \/ readManyCsv(positionsDir) = 0
       THEN /\ responses' = Append(responses, Response(route, 400, DetailUploadBoth))
            /\ UNCHANGED inflight
       ELSE /\ inflight' = Append(inflight, [ route |-> route,
                                               actRows |-> rowsRead(uploadsDir),
                                               posRows |-> rowsRead(positionsDir) ])
            /\ UNCHANGED responses
  /\ UNCHANGED <<uploadsDir, positionsDir>>
  /\ UNCHANGED otherThanServer

\* servePortfolio after its await, for one of the requests in flight: the
\* figures are filled in, both folders are cleared, the result is sent.
ServePortfolioFinish ==
  /\ \E i \in 1..Len(inflight) :
       /\ responses' = Append(responses, Response(inflight[i].route, 200, DetailComputed))
       /\ inflight' = SubSeq(inflight, 1, i - 1) \o SubSeq(inflight, i + 1, Len(inflight))
  /\ uploadsDir' = clearCsvs(uploadsDir)
  /\ positionsDir' = clearCsvs(positionsDir)
  /\ UNCHANGED otherThanServer

ServerNext ==
  \/ Upload
  \/ UploadPositions
  \/ Clear
  \/ ServePortfolioBegin
  \/ ServePortfolioFinish

SpecServer == ServerInit /\ [][ServerNext]_vars

LastResponse(rs) == rs[Len(rs)]

\* The latest response is a computed result of /portfolio or /recalc.
ComputedLast(rs) ==
  /\ rs # <<>>
  /\ LastResponse(rs).route \in ServePortfolioRoutes
  /\ LastResponse(rs).status = 200

\* The latest response is the 400 of /portfolio or /recalc.
RefusedLast(rs) ==
  /\ rs # <<>>
  /\ LastResponse(rs).route \in ServePortfolioRoutes
  /\ LastResponse(rs).status = 400

NoCsv(folder) == \A f \in DOMAIN folder : ~isCsvName(f)

\* This step sends a response.
Responds == Len(responses') = Len(responses) + 1

\* This step is the arrival of a /portfolio or /recalc request: it is answered
\* at once or joins the requests in flight.
ServeRequestArrives ==
  \/ Len(inflight') > Len(inflight)
  \/ Responds /\ RefusedLast(responses')

C20_WitnessRefusedKeepsFiles ==
  /\ RefusedLast(responses)
  /\ ~NoCsv(uploadsDir)
  /\ ~NoCsv(positionsDir)

\* A file uploaded as A.CSV is accepted, is not read by readManyCsv and is not
\* unlinked by clearCsvs: it is still there after a computed result.
C20_UpperCaseNameStays ==
  /\ ComputedLast(responses)
  /\ <<"A",".","C","S","V">> \in DOMAIN uploadsDir

---------------------------------------------------------------------------
(* The price providers over time (priceProviders.js): CACHE and            *)
(* HISTORY_CACHE across lookups, the wall clock in milliseconds.           *)

TTL_MS == 15 * 60 * 1000

\* const entry = CACHE.get(s); entry && now - entry.ts <= TTL_MS
cacheFresh(cache, cs, now) == cs \in DOMAIN cache /\ now - cache[cs].ts <= TTL_MS

\* The symbols pushed to need.
needOf(cache, cleaned, now) == {cs \in cleaned : ~cacheFresh(cache, cs, now)}

\* CACHE.set(q.symbol, { price: q.regularMarketPrice, ts: now }) for every
\* quote of the answer.
cacheQuotes(cache, quoted, now) ==
  [cs \in DOMAIN cache \cup quoted |->
     IF cs \in quoted THEN [price |-> QuoteOf(cs), ts |-> now] ELSE cache[cs]]

\* cacheKey(symbols, start, end, interval): the sorted symbols joined, the two
\* instants and the interval.
cacheKey(symbols, start, end, interval) ==
  [symbols |-> symbols, start |-> start, end |-> end, interval |-> interval]

\* What historical() has on a symbol.
YahooHistory(cs) == CHOOSE h \in HistoriesOf(cs) : Len(h) = 1

\* result[symbol], [] for a symbol whose lookup throws.
historyFetched(cleaned, failing) ==
  [cs \in cleaned |-> IF cs \in failing THEN <<>> ELSE YahooHistory(cs)]

\* HISTORY_CACHE.set(key, result)
cacheSet(cache, key, value) ==
  [k \in DOMAIN cache \cup {key} |-> IF k = key THEN value ELSE cache[k]]

\* A value returned without a call to Yahoo: which, when fetched, when served.
Served(kind, key, fetchedAt, at) ==
  [kind |-> kind, key |-> key, fetchedAt |-> fetchedAt, at |-> at]

MaxLookups == 3

MaxClock == 1800002

MaxOddMs == 2

\* The time that passes between two lookups: a millisecond, or the TTL.
ClockSteps == {1, TTL_MS}

LookupSymbols == {{SymA}, {SymA, SymB}}

\* The (start, end) instants the history is asked for.
HistoryRanges == {<<401, 403>>}

CacheInit ==
  /\ LedgerIdle
  /\ SeriesIdle
  /\ PerfIdle
  /\ ServerIdle
  /\ XirrIdle
  /\ TimelineIdle
  /\ CACHE = <<>>
  /\ HISTORY_CACHE = <<>>
  /\ clock = 0
  /\ historyFetchedAt = <<>>
  /\ served = {}
  /\ requested = {}
  /\ lookups = 0

\* Time passes.
Tick ==
  /\ \E d \in ClockSteps :
       /\ clock + d <= MaxClock
       /\ (clock + d) % TTL_MS <= MaxOddMs
       /\ clock' = clock + d
  /\ UNCHANGED <<CACHE, HISTORY_CACHE, historyFetchedAt, served, requested, lookups>>
  /\ UNCHANGED otherThanCache

\* getCurrentPrices(symbols): fresh entries are served, the rest is asked of
\* Yahoo in one call, which answers or throws.
LookupCurrentPrices ==
  /\ lookups < MaxLookups
  /\ lookups' = lookups + 1
  /\ \E symbols \in LookupSymbols, throws \in BOOLEAN :
       /\ served' = { Served("quote", cs, CACHE[cs].ts, clock) :
                        cs \in cleanedOf(symbols) \ needOf(CACHE, cleanedOf(symbols), clock) }
       /\ requested' = needOf(CACHE, cleanedOf(symbols), clock)
       /\ CACHE' = IF throws THEN CACHE
                   ELSE cacheQuotes(CACHE, needOf(CACHE, cleanedOf(symbols), clock), clock)
  /\ UNCHANGED <<HISTORY_CACHE, clock, historyFetchedAt>>
  /\ UNCHANGED otherThanCache

\* getPriceHistory(symbols, start, end, '1d'): the cached result of the key if
\* there is one, else one historical() call per symbol, each of which answers
\* or throws, and the result is cached.
LookupPriceHistory ==
  /\ lookups < MaxLookups
  /\ lookups' = lookups + 1
  /\ \E symbols \in LookupSymbols, range \in HistoryRanges :
       IF cacheKey(cleanedOf(symbols), range[1], range[2], "1d") \in DOMAIN HISTORY_CACHE
       THEN /\ served' =
                 { Served("history", cacheKey(cleanedOf(symbols), range[1], range[2], "1d"),
                          historyFetchedAt[cacheKey(cleanedOf(symbols), range[1], range[2], "1d")],
                          clock) }
            /\ requested' = {}
            /\ UNCHANGED <<HISTORY_CACHE, historyFetchedAt>>
       ELSE /\ \E failing \in SUBSET cleanedOf(symbols) :
                 HISTORY_CACHE' =
                   cacheSet(HISTORY_CACHE,
                            cacheKey(cleanedOf(symbols), range[1], range[2], "1d"),
                            historyFetched(cleanedOf(symbols), failing))
            /\ historyFetchedAt' =
                 cacheSet(historyFetchedAt,
                          cacheKey(cleanedOf(symbols), range[1], range[2], "1d"), clock)
            /\ served' = {}
            /\ requested' = cleanedOf(symbols)
  /\ UNCHANGED <<CACHE, clock>>
  /\ UNCHANGED otherThanCache

CacheNext == Tick \/ LookupCurrentPrices \/ LookupPriceHistory

SpecCache == CacheInit /\ [][CacheNext]_vars

\* The age of a served value when it was served.
AgeOf(x) == x.at - x.fetchedAt

(* C19 as stated: every value the latest lookup served from cache, a       *)
(* current quote or a historical series, was fetched at most TTL_MS (15    *)
(* minutes) before that lookup.                                            *)
C19_ServedWithinTtl == \A x \in served : AgeOf(x) <= TTL_MS

\* The part that holds: a quote served from CACHE is at most 15 minutes old,
\* and a symbol whose entry is older is asked of Yahoo again.
C19_QuotesWithinTtl ==
  /\ \A x \in served : x.kind = "quote" => AgeOf(x) <= TTL_MS
  /\ \A cs \in DOMAIN CACHE :
       (clock - CACHE[cs].ts > TTL_MS) =>
         cs \in needOf(CACHE, {cs}, clock)

\* C19 divergence: a historical series served from HISTORY_CACHE a millisecond
\* after its 15 minutes were over, without a call to Yahoo.
C19_Divergence ==
  \E x \in served :
    /\ x.kind = "history"
    /\ AgeOf(x) = TTL_MS + 1
    /\ requested = {}

\* A quote served at exactly 15 minutes, and one refetched a millisecond later.
C19_QuoteServedAtTtl == \E x \in served : x.kind = "quote" /\ AgeOf(x) = TTL_MS

C19_QuoteRefetched ==
  /\ SymA \in requested
  /\ SymA \in DOMAIN CACHE
  /\ CACHE[SymA].ts = 0
  /\ clock = TTL_MS + 1
  /\ served = {}

---------------------------------------------------------------------------
(* Money-weighted return: computeXirr.  A flow is <<day, amount>>.  The    *)
(* NPV  sum amt / (1 + rate) ** (days / 365.25)  is real-valued; what the  *)
(* code does with it is decided by its sign, and by whether its magnitude  *)
(* is below 1e-6.  The sign is computed exactly for the flow lists of the  *)
(* pool: lists whose NPV has one sign at every rate (no negative or no     *)
(* positive amount, or all flows on one day: the NPV is the plain sum),    *)
(* and two flows four years apart (exponent 1461 / 365.25 = 4) whose       *)
(* amounts are in the ratio c^4 for a rational c, so that the NPV changes  *)
(* sign exactly at rate c - 1.  The bracket of the bisection is kept as    *)
(* the upper bound the expansion reached and the list of steps taken from  *)
(* [low, high]: its ends are low + w * 0.b1..bn and that plus w / 2^n,     *)
(* w = high - low, exactly.  The magnitude test is certain when the NPV is *)
(* exactly 0; otherwise both outcomes are possible.                        *)

Sign(x) == IF x > 0 THEN 1 ELSE IF x < 0 THEN -1 ELSE 0

\* amounts.some(a => a < 0), amounts.some(a => a > 0)
hasNeg(flows) == \E i \in 1..Len(flows) : flows[i][2] < 0

hasPos(flows) == \E i \in 1..Len(flows) : flows[i][2] > 0

\* Mutant: only the empty list is turned away.
undeterminedIfEmpty(flows) == flows = <<>>

\* if (!flows.length) return null; ... if (!hasNeg || !hasPos) return null;
undetermined(flows) == flows = <<>> \/ ~hasNeg(flows) \/ ~hasPos(flows)

SameDay(flows) == \A i \in 1..Len(flows) : flows[i][1] = flows[1][1]

RECURSIVE SumOfAmounts(_, _)
SumOfAmounts(flows, i) ==
  IF i > Len(flows) THEN 0 ELSE flows[i][2] + SumOfAmounts(flows, i + 1)

\* The NPV has the same sign at every rate above -1.
OneSigned(flows) == ~hasNeg(flows) \/ ~hasPos(flows) \/ SameDay(flows)

signEverywhere(flows) ==
  IF SameDay(flows) THEN Sign(SumOfAmounts(flows, 1))
  ELSE IF ~hasNeg(flows) THEN 1
  ELSE -1

Fourth(n) == n * n * n * n

\* c = n / d with |first| * c^4 = |second|, for two flows four years apart.
IsGrowth(a, b, n, d) ==
  /\ Fourth(n) <= 2000000000 \div a
  /\ Fourth(d) <= 2000000000 \div b
  /\ a * Fourth(n) = b * Fourth(d)

growthOf(a, b) ==
  CHOOSE c \in {<<n, d>> : n \in 1..120, d \in {1, 2, 10}} :
    Gcd(c[1], c[2]) = 1 /\ IsGrowth(a, b, c[1], c[2])

\* The rate at which the NPV of the two flows is 0.
rootOf(flows) == RatSub(growthOf(Abs(flows[1][2]), Abs(flows[2][2])), One)

\* The sign of xnpv(rate) for a rate above -1.
xnpvSign(flows, rate) ==
  IF OneSigned(flows) THEN signEverywhere(flows)
  ELSE IF rate = rootOf(flows) THEN 0
  ELSE IF RatLess(rate, rootOf(flows)) THEN Sign(flows[2][2])
  ELSE Sign(flows[1][2])

\* let low = -0.999;
LOW == <<-999, 1000>>

Half == <<1, 2>>

\* Where the root lies in [low, high], as a fraction of the width; null for
\* an NPV with one sign everywhere.
rootPosition(flows, hi) ==
  IF OneSigned(flows) THEN NullNum
  ELSE RatDiv(RatSub(rootOf(flows), LOW), RatSub(Num(hi), LOW))

\* The sign of fMid, the NPV at the midpoint of the bracket.
midSign(flows, signLow, t) ==
  IF OneSigned(flows) THEN signEverywhere(flows)
  ELSE IF t = Half THEN 0
  ELSE IF RatLess(t, Half) THEN -signLow
  ELSE signLow

\* if (fLow * fMid < 0) { high = mid; ... } else { low = mid; ... }
keepsLowerHalf(signLow, signMid) == signLow * signMid < 0

\* The root's place in the half that is kept.
positionAfter(t, lower) ==
  IF t = NullNum THEN NullNum
  ELSE IF lower THEN RatMul(Num(2), t)
  ELSE RatSub(RatMul(Num(2), t), One)

\* A rate: low + (hi - low) * 0.bits, hi = 10 * 2^attempts.
Rate(hi, bits) == [high |-> hi, bits |-> bits]

\* mid = (low + high) / 2 of the bracket reached by `steps`.
midOf(hi, steps) == Rate(hi, Append(steps, 1))

\* Mutant: the midpoint of the first bracket is returned.
returnedMidFirst(hi, steps) == Rate(hi, <<1>>)

\* The mid the loop leaves behind: the midpoint of the bracket before its last
\* step.
returnedMid(hi, steps) == midOf(hi, SubSeq(steps, 1, Len(steps) - 1))

MaxAttempts == 10

MaxIterations == 100

Flow(day, amount) == <<day, amount>>

\* No flows, one-sided lists, a zero flow, a purchase and its value on the same
\* day (equal, and not), investments growing by 10%, 1000%, 9900% and 100% a
\* year over four years, one shrinking by half, and a loan.
XirrFlowLists ==
  { <<>>,
    <<Flow(0, -100)>>,
    <<Flow(0, 100), Flow(1461, 50)>>,
    <<Flow(0, -100), Flow(1461, -5)>>,
    <<Flow(0, 0)>>,
    <<Flow(0, -100), Flow(0, 100)>>,
    <<Flow(0, -100), Flow(0, 150)>>,
    <<Flow(0, -10000), Flow(1461, 14641)>>,
    <<Flow(0, -1), Flow(1461, 14641)>>,
    <<Flow(0, -1), Flow(1461, 100000000)>>,
    <<Flow(0, -100), Flow(1461, 1600)>>,
    <<Flow(0, -1600), Flow(1461, 100)>>,
    <<Flow(0, 100), Flow(1461, -1600)>> }

XirrInit ==
  /\ LedgerIdle
  /\ SeriesIdle
  /\ PerfIdle
  /\ ServerIdle
  /\ CacheIdle
  /\ TimelineIdle
  /\ xirrFlows \in XirrFlowLists
  /\ attempts = 0
  /\ high = 0
  /\ bisected = <<>>
  /\ rootAt = <<>>
  /\ fLow = 0
  /\ fHigh = 0
  /\ iterations = 0
  /\ irr = <<>>
  /\ xirrPhase = "enter"

\* The early returns.
ReturnUndetermined ==
  /\ xirrPhase = "enter"
  /\ undetermined(xirrFlows)
  /\ irr' = NullNum
  /\ xirrPhase' = "done"
  /\ UNCHANGED <<xirrFlows, attempts, high, bisected, rootAt, fLow, fHigh, iterations>>
  /\ UNCHANGED otherThanXirr

\* let low = -0.999; let high = 10; let fLow = xnpv(low); let fHigh = xnpv(high);
\* let attempts = 0;
EnterBracket ==
  /\ xirrPhase = "enter"
  /\ ~undetermined(xirrFlows)
  /\ high' = 10
  /\ fLow' = xnpvSign(xirrFlows, LOW)
  /\ fHigh' = xnpvSign(xirrFlows, Num(10))
  /\ attempts' = 0
  /\ xirrPhase' = "expand"
  /\ UNCHANGED <<xirrFlows, bisected, rootAt, iterations, irr>>
  /\ UNCHANGED otherThanXirr

\* One turn of  while (fLow * fHigh > 0 && attempts < 10) { high *= 2; ... }
ExpandBracket ==
  /\ xirrPhase = "expand"
  /\ fLow * fHigh > 0
  /\ attempts < MaxAttempts
  /\ high' = high * 2
  /\ fHigh' = xnpvSign(xirrFlows, Num(high * 2))
  /\ attempts' = attempts + 1
  /\ xirrPhase' = IF high * 2 > 1000000 THEN "expanded" ELSE "expand"
  /\ UNCHANGED <<xirrFlows, bisected, rootAt, fLow, iterations, irr>>
  /\ UNCHANGED otherThanXirr

ExpansionOver ==
  \/ xirrPhase = "expanded"
  \/ xirrPhase = "expand" /\ ~(fLow * fHigh > 0 /\ attempts < MaxAttempts)

\* if (fLow * fHigh > 0) return null;
ReturnNoBracket ==
  /\ ExpansionOver
  /\ fLow * fHigh > 0
  /\ irr' = NullNum
  /\ xirrPhase' = "done"
  /\ UNCHANGED <<xirrFlows, attempts, high, bisected, rootAt, fLow, fHigh, iterations>>
  /\ UNCHANGED otherThanXirr

\* let mid = 0; for (let i = 0; ...
EnterBisection ==
  /\ ExpansionOver
  /\ ~(fLow * fHigh > 0)
  /\ bisected' = <<>>
  /\ rootAt' = rootPosition(xirrFlows, high)
  /\ iterations' = 0
  /\ xirrPhase' = "bisect"
  /\ UNCHANGED <<xirrFlows, attempts, high, fLow, fHigh, irr>>
  /\ UNCHANGED otherThanXirr

\* One turn of the for loop that ends in  if (Math.abs(fMid) < 1e-6) return mid;
ReturnConverged ==
  /\ xirrPhase = "bisect"
  /\ iterations < MaxIterations
  /\ iterations' = iterations + 1
  /\ irr' = midOf(high, bisected)
  /\ xirrPhase' = "done"
  /\ UNCHANGED <<xirrFlows, attempts, high, bisected, rootAt, fLow, fHigh>>
  /\ UNCHANGED otherThanXirr

\* One turn of the for loop that keeps a half of the bracket.
Bisect ==
  /\ xirrPhase = "bisect"
  /\ iterations < MaxIterations
  /\ midSign(xirrFlows, fLow, rootAt) # 0
  /\ iterations' = iterations + 1
  /\ IF keepsLowerHalf(fLow, midSign(xirrFlows, fLow, rootAt))
     THEN /\ bisected' = Append(bisected, 0)
          /\ fHigh' = midSign(xirrFlows, fLow, rootAt)
          /\ rootAt' = positionAfter(rootAt, TRUE)
          /\ UNCHANGED fLow
     ELSE /\ bisected' = Append(bisected, 1)
          /\ fLow' = midSign(xirrFlows, fLow, rootAt)
          /\ rootAt' = positionAfter(rootAt, FALSE)
          /\ UNCHANGED fHigh
  /\ UNCHANGED <<xirrFlows, attempts, high, irr, xirrPhase>>
  /\ UNCHANGED otherThanXirr

\* return mid; after the loop.
ReturnLastMid ==
  /\ xirrPhase = "bisect"
  /\ iterations = MaxIterations
  /\ irr' = returnedMid(high, bisected)
  /\ xirrPhase' = "done"
  /\ UNCHANGED <<xirrFlows, attempts, high, bisected, rootAt, fLow, fHigh, iterations>>
  /\ UNCHANGED otherThanXirr

XirrNext ==
  \/ ReturnUndetermined
  \/ EnterBracket
  \/ ExpandBracket
  \/ ReturnNoBracket
  \/ EnterBisection
  \/ ReturnConverged
  \/ Bisect
  \/ ReturnLastMid

SpecXirr == XirrInit /\ [][XirrNext]_vars

XirrDone == xirrPhase = "done"

\* The flow list is empty, has no strictly negative amount, or has no strictly
\* positive amount.
NoNegativeAmount == \A i \in 1..Len(xirrFlows) : xirrFlows[i][2] >= 0

NoPositiveAmount == \A i \in 1..Len(xirrFlows) : xirrFlows[i][2] <= 0

(* C15: when computeXirr has returned for a flow list that is empty, has   *)
(* no strictly negative amount or has no strictly positive amount, the     *)
(* result is null, and it was returned before any NPV was evaluated: no    *)
(* bracket was expanded and no bisection step was taken.                   *)
C15_UndeterminedWithoutBothSigns ==
  (XirrDone /\ (xirrFlows = <<>> \/ NoNegativeAmount \/ NoPositiveAmount)) =>
    /\ irr = NullNum
    /\ attempts = 0
    /\ iterations = 0
    /\ high = 0

\* C15 witness: two deposits and no withdrawal or value: null.
C15_Witness ==
  /\ XirrDone
  /\ xirrFlows = <<Flow(0, 100), Flow(1461, 50)>>
  /\ irr = NullNum

\* The empty list and an all-negative list end the same way.
C15_WitnessEmpty == XirrDone /\ xirrFlows = <<>> /\ irr = NullNum

C15_WitnessAllNegative ==
  /\ XirrDone
  /\ xirrFlows = <<Flow(0, -100), Flow(1461, -5)>>
  /\ irr = NullNum

\* Binary fractions 0.x, compared exactly.
BitAt(x, i) == IF i <= Len(x) THEN x[i] ELSE 0

BitsLess(x, y) ==
  \E i \in 1..(Len(x) + Len(y)) :
    /\ BitAt(x, i) < BitAt(y, i)
    /\ \A j \in 1..(i - 1) : BitAt(x, j) = BitAt(y, j)

FirstBits(x, n) == [i \in 1..n |-> BitAt(x, i)]

ZeroFrom(x, n) == \A i \in (n + 1)..Len(x) : x[i] = 0

\* 0.steps + 2^-n as n bits, for steps that are not all ones.
NextUp(steps, j) ==
  [i \in 1..Len(steps) |-> IF i < j THEN steps[i] ELSE IF i = j THEN 1 ELSE 0]

ZeroIndexes(steps) == {j \in 1..Len(steps) : steps[j] = 0}

\* 0.v lies in [0.steps, 0.steps + 2^-n], n = Len(steps): the bracket that
\* the steps lead to, in units of the width high - low.
InBracket(v, steps) ==
  /\ ~BitsLess(v, steps)
  /\ \/ FirstBits(v, Len(steps)) = steps
     \/ /\ ZeroIndexes(steps) # {}
        /\ FirstBits(v, Len(steps)) = NextUp(steps, SetMax(ZeroIndexes(steps)))
        /\ ZeroFrom(v, Len(steps))

\* The NPV has the same strict sign at low and at the upper bound reached.
SameSignAtEnds == xnpvSign(xirrFlows, LOW) * xnpvSign(xirrFlows, Num(high)) > 0

(* C16: computeXirr makes at most 10 expansions, each doubling the upper   *)
(* bound from 10 (the bound is 10 * 2^attempts and an expansion is only    *)
(* made from a bound of at most 1e6), and at most 100 bisection            *)
(* iterations; when it has returned for a list with both signs, the result *)
(* is null exactly if the NPV has the same sign at -0.999 and at the upper *)
(* bound reached, and otherwise is a rate inside the final bracket.        *)
C16_BoundedSearchRateInBracket ==
  /\ attempts <= 10
  /\ iterations <= 100
  /\ xirrPhase \in {"expand", "expanded", "bisect"} => high = 10 * 2^attempts
  /\ xirrPhase = "expand" => high <= 1000000
  /\ (XirrDone /\ ~(xirrFlows = <<>> \/ NoNegativeAmount \/ NoPositiveAmount)) =>
       /\ high = 10 * 2^attempts
       /\ (irr = NullNum) <=> SameSignAtEnds
       /\ irr # NullNum =>
            /\ irr.high = high
            /\ InBracket(irr.bits, bisected)

\* C16 witness: ten expansions without a change of sign: null.
C16_Witness ==
  /\ XirrDone
  /\ attempts = 10
  /\ high = 10240
  /\ iterations = 0
  /\ irr = NullNum

\* Four expansions find the root at 9900%, a hundred iterations follow, and
\* the rate returned is in the bracket they lead to.
C16_WitnessHundredIterations ==
  /\ XirrDone
  /\ attempts = 4
  /\ high = 160
  /\ iterations = 100
  /\ Len(bisected) = 100
  /\ irr # NullNum
  /\ InBracket(irr.bits, bisected)

\* The NPV is 0 at the first midpoint: the rate is returned in the first
\* iteration.
C16_WitnessFirstIteration ==
  /\ XirrDone
  /\ iterations = 1
  /\ irr = Rate(10, <<1>>)

---------------------------------------------------------------------------
(* Event order of a ledger.                                                *)

\* The rank the invariant gives each kind of event.
Priority(eventType) ==
  CASE eventType = "dividend" -> 1
    [] eventType = "reinvest" -> 2
    [] eventType = "buy" -> 3
    [] eventType = "sell" -> 4
    [] OTHER -> 5

\* a comes strictly before b: earlier date, else lower rank, else earlier row.
Precedes(a, b) ==
  \/ a.date < b.date
  \/ a.date = b.date /\ Priority(a.eventType) < Priority(b.eventType)
  \/ /\ a.date = b.date
     /\ Priority(a.eventType) = Priority(b.eventType)
     /\ a.sequence < b.sequence

InOrder(events) ==
  \A i \in 1..Len(events) : \A j \in 1..Len(events) :
    i < j => Precedes(events[i], events[j])

\* The sorted events are the pushed ones, each once.
SamePushed(events, pushed) ==
  /\ Len(events) = Len(pushed)
  /\ Range(events) = Range(pushed)

\* One share-history entry per event, in the events' order.
HistoryFollows(history, events) ==
  /\ Len(history) = Len(events)
  /\ \A i \in 1..Len(events) : history[i].date = events[i].date

\* One cash flow per event, in the events' order.
CashflowsFollow(flows, events) ==
  /\ Len(flows) = Len(events)
  /\ \A i \in 1..Len(events) :
       /\ flows[i].date = events[i].date
       /\ flows[i].type = events[i].eventType
       /\ flows[i].amount = events[i].cashFlow

PayingEvents(events) == SelectSeq(events, LAMBDA e : e.dividendAmount > 0)

\* One dividend event per event that pays a dividend, in the events' order.
DividendsFollow(dividends, paying) ==
  /\ Len(dividends) = Len(paying)
  /\ \A i \in 1..Len(paying) :
       /\ dividends[i].date = paying[i].date
       /\ dividends[i].amount = paying[i].dividendAmount
       /\ dividends[i].reinvested = paying[i].reinvested

LedgerInOrder(l, pushed) ==
  /\ InOrder(l.events)
  /\ SamePushed(l.events, pushed)
  /\ HistoryFollows(l.shareHistory, l.events)
  /\ CashflowsFollow(l.cashflows, l.events)
  /\ DividendsFollow(l.dividendEvents, PayingEvents(l.events))

(* C21: in every ledger of parseActivity the events are ordered by date    *)
(* ascending, then dividend < reinvest < buy < sell < other, then by the   *)
(* original input sequence, and shareHistory, cashflows and dividendEvents *)
(* are emitted in that same order.                                         *)
C21_EventsInOrder ==
  Built =>
    \A sym \in DOMAIN parseActivity(activityRows) :
      /\ sym \in DOMAIN Ledgers
      /\ Ledgers[sym].events = parseActivity(activityRows)[sym].events
      /\ LedgerInOrder(parseActivity(activityRows)[sym], eventsOf(Entries, sym))

\* C21 witness: a purchase, a reinvestment and a dividend of the same day,
\* uploaded in that order, come out dividend, reinvestment, purchase.
C21_Witness ==
  /\ Built
  /\ SymA \in DOMAIN Ledgers
  /\ Len(Ledgers[SymA].events) = 3
  /\ \A i \in 1..3 : Ledgers[SymA].events[i].date = 2
  /\ Ledgers[SymA].events[1].eventType = "dividend"
  /\ Ledgers[SymA].events[1].sequence = 2
  /\ Ledgers[SymA].events[2].eventType = "reinvest"
  /\ Ledgers[SymA].events[3].eventType = "buy"
  /\ Ledgers[SymA].events[3].sequence = 0
  /\ Len(Ledgers[SymA].dividendEvents) = 2

\* Two reinvestments of the same day keep their input order, behind a purchase
\* of the day before that was uploaded last.
C21_WitnessSequenceTie ==
  /\ Built
  /\ SymA \in DOMAIN Ledgers
  /\ Len(Ledgers[SymA].events) = 3
  /\ Ledgers[SymA].events[1].eventType = "buy"
  /\ Ledgers[SymA].events[1].sequence = 2
  /\ Ledgers[SymA].events[2].eventType = "reinvest"
  /\ Ledgers[SymA].events[2].sequence = 0
  /\ Ledgers[SymA].events[3].eventType = "reinvest"
  /\ Ledgers[SymA].events[3].sequence = 1

---------------------------------------------------------------------------
(* The timeline of one symbol: the body of the loop over the symbols in    *)
(* computePortfolioPerformance, from buildSharesSeries to the market-value *)
(* series, on a ledger of a built model, a day index, the history and the  *)
(* live quote the providers returned for the symbol.                       *)

MaxTimelineRows == 3

FirstIndexDay == 2

LastIndexDay == 4

\* One security traded before, inside and after the days an index can cover:
\* two events on day 3 that move cash and one that does not.
TimelinePool ==
  { ActivityRow(ActBuy, SymA, DescAcme, <<"1","0">>, <<"-","1","0","0">>, 1),
    ActivityRow(ActBuy, SymA, DescAcme, <<"5">>, <<"-","6","0">>, 2),
    ActivityRow(ActSell, SymA, DescAcme, <<"-","3">>, <<"4","5">>, 3),
    ActivityRow(ActDividend, SymA, DescAcme, <<>>, <<"5">>, 3),
    ActivityRow(ActReinvest, SymA, DescAcme, <<"1">>, <<"-","5">>, 3),
    ActivityRow(ActBuy, SymA, DescAcme, <<"2">>, <<"-","3","0">>, 5) }

TimelineHoldings == {<<>>, <<HoldingRow(SymA, DescAcme, <<"7">>, <<"7","0">>)>>}

TimelineBatches ==
  UNION {[1..n -> TimelinePool] : n \in 0..MaxTimelineRows}

TimelineModels ==
  {buildPortfolioModel(rows, held) : rows \in TimelineBatches, held \in TimelineHoldings}

\* The ledgers of the security in the models built from the batches.
TimelineLedgers ==
  {m.symbols[SymA] : m \in {b \in TimelineModels : SymA \in DOMAIN b.symbols}}

\* dateRange(start, end) for the starts and ends within the index days.
TimelineIndexes ==
  {dateRange(start, end) : start \in FirstIndexDay..LastIndexDay,
                           end \in FirstIndexDay..LastIndexDay} \ {<<>>}

\* What getPriceHistory returned for the symbol: nothing, every day, a day in
\* the middle, the first day, the last day, a day before the index, and a day
\* the provider reported twice.
TimelineHistories ==
  { <<>>,
    <<PricePoint(2, Num(10)), PricePoint(3, Num(12)), PricePoint(4, Num(14))>>,
    <<PricePoint(3, Num(12))>>,
    <<PricePoint(2, Num(10))>>,
    <<PricePoint(4, Num(14))>>,
    <<PricePoint(1, Num(9))>>,
    <<PricePoint(3, Num(11)), PricePoint(3, Num(12))>> }

\* What getCurrentPrices returned for the symbol: null or a price.
TimelineQuotes == {NullNum, Num(15)}

TimelineInit ==
  /\ LedgerIdle
  /\ SeriesIdle
  /\ PerfIdle
  /\ ServerIdle
  /\ CacheIdle
  /\ XirrIdle
  /\ symbolLedger \in TimelineLedgers
  /\ dateIndex \in TimelineIndexes
  /\ priceSeriesRaw \in TimelineHistories
  /\ symbolQuote \in TimelineQuotes
  /\ sharesSeries = <<>>
  /\ priceSeries = <<>>
  /\ cashflowSeries = <<>>
  /\ marketValueSeries = <<>>
  /\ timelinePhase = "ledger"

\* const sharesSeries = buildSharesSeries(ledger, dateIndex);
BuildSharesSeries ==
  /\ timelinePhase = "ledger"
  /\ sharesSeries' = buildSharesSeries(symbolLedger, dateIndex)
  /\ timelinePhase' = "shares"
  /\ UNCHANGED <<symbolLedger, dateIndex, priceSeriesRaw, symbolQuote, priceSeries,
                 cashflowSeries, marketValueSeries>>
  /\ UNCHANGED otherThanTimeline

\* priceSeries: mapped from the history, seeded with the quote, filled forward
\* and backward.
BuildPriceSeries ==
  /\ timelinePhase = "shares"
  /\ priceSeries' = priceSeriesOf(priceSeriesRaw, dateIndex, symbolQuote)
  /\ timelinePhase' = "prices"
  /\ UNCHANGED <<symbolLedger, dateIndex, priceSeriesRaw, symbolQuote, sharesSeries,
                 cashflowSeries, marketValueSeries>>
  /\ UNCHANGED otherThanTimeline

\* const cashflowSeries = buildCashflowSeries(ledger, dateIndex);
BuildCashflowSeries ==
  /\ timelinePhase = "prices"
  /\ cashflowSeries' = buildCashflowSeries(symbolLedger, dateIndex)
  /\ timelinePhase' = "cashflows"
  /\ UNCHANGED <<symbolLedger, dateIndex, priceSeriesRaw, symbolQuote, sharesSeries,
                 priceSeries, marketValueSeries>>
  /\ UNCHANGED otherThanTimeline

\* const marketValueSeries = priceSeries.map((price, idx) => ...);
BuildMarketValueSeries ==
  /\ timelinePhase = "cashflows"
  /\ marketValueSeries' = marketValueSeriesOf(priceSeries, sharesSeries)
  /\ timelinePhase' = "done"
  /\ UNCHANGED <<symbolLedger, dateIndex, priceSeriesRaw, symbolQuote, sharesSeries,
                 priceSeries, cashflowSeries>>
  /\ UNCHANGED otherThanTimeline

TimelineNext ==
  \/ BuildSharesSeries
  \/ BuildPriceSeries
  \/ BuildCashflowSeries
  \/ BuildMarketValueSeries

SpecTimeline == TimelineInit /\ [][TimelineNext]_vars

TimelineDone == timelinePhase = "done"

---------------------------------------------------------------------------
(* Vocabulary of the timeline properties.                                  *)

\* The share-history entries dated on or before a day.
EntriesUpTo(history, day) ==
  {k \in 1..Len(history) : history[k].date # NullDate /\ history[k].date <= day}

\* The shares after the last of them, 0 if there is none.
SharesAsOf(history, day) ==
  IF EntriesUpTo(history, day) = {} THEN 0
  ELSE history[SetMax(EntriesUpTo(history, day))].shares

\* No entry is dated on or before the last day of the index.
NoUsableEntry(history, dates) == EntriesUpTo(history, dates[Len(dates)]) = {}

ExpectedShares(l, dates, i) ==
  IF NoUsableEntry(l.shareHistory, dates) /\ l.currentShares > 0
  THEN l.currentShares
  ELSE SharesAsOf(l.shareHistory, dates[i])

SharesBuilt == timelinePhase # "ledger"

(* C22: for every ledger and day index, buildSharesSeries returns for each *)
(* index day the shares-after of the last shareHistory entry dated on or   *)
(* before it, 0 if there is none: history before the index start lands on  *)
(* the first day, history after the index end is ignored, days without an  *)
(* entry carry the previous value; with no usable entry and                *)
(* currentShares > 0, every day equals currentShares.                      *)
C22_SharesAreStepFunction ==
  SharesBuilt =>
    /\ Len(sharesSeries) = Len(dateIndex)
    /\ \A i \in 1..Len(dateIndex) :
         sharesSeries[i] = Num(ExpectedShares(symbolLedger, dateIndex, i))

\* C22 witness: 10 shares bought before the index, 3 sold on its second day,
\* 2 bought after its end: 10, 7, 7.
C22_Witness ==
  /\ SharesBuilt
  /\ dateIndex = <<2, 3, 4>>
  /\ Len(symbolLedger.shareHistory) = 3
  /\ symbolLedger.shareHistory[1].date = 1
  /\ symbolLedger.shareHistory[3].date = 5
  /\ symbolLedger.currentShares = 9
  /\ sharesSeries = <<Num(10), Num(7), Num(7)>>

\* The only event is dated after the index: every day shows the current shares.
C22_WitnessNoUsableEntry ==
  /\ SharesBuilt
  /\ dateIndex = <<2, 3, 4>>
  /\ Len(symbolLedger.shareHistory) = 1
  /\ symbolLedger.shareHistory[1].date = 5
  /\ symbolLedger.currentShares = 2
  /\ sharesSeries = <<Num(2), Num(2), Num(2)>>

\* A position known from the holdings file only.
C22_WitnessHoldingsOnly ==
  /\ SharesBuilt
  /\ symbolLedger.shareHistory = <<>>
  /\ symbolLedger.currentShares = 7
  /\ sharesSeries = <<Num(7), Num(7)>>

\* Nothing before the first entry, the entry's value from its day on.
C22_WitnessLeadingZero ==
  /\ SharesBuilt
  /\ dateIndex = <<2, 3, 4>>
  /\ Len(symbolLedger.shareHistory) = 1
  /\ sharesSeries = <<Num(0), Num(1), Num(1)>>

\* The cash flows of a ledger dated a given day that are not reinvestments.
ExternalOn(flows, day) ==
  {k \in 1..Len(flows) : flows[k].date = day /\ flows[k].type # "reinvest"}

ReinvestedOn(flows, day) ==
  {k \in 1..Len(flows) : flows[k].date = day /\ flows[k].type = "reinvest"}

RECURSIVE SumOfFlows(_, _)
SumOfFlows(flows, ks) ==
  IF ks = {} THEN 0
  ELSE flows[CHOOSE k \in ks : TRUE].amount
         + SumOfFlows(flows, ks \ {CHOOSE k \in ks : TRUE})

RECURSIVE SumOfSeries(_)
SumOfSeries(series) ==
  IF series = <<>> THEN Zero ELSE RatAdd(series[1], SumOfSeries(Tail(series)))

\* The days of the index, as a set.
IndexDays == Range(dateIndex)

\* The non-reinvest flows of the ledger dated inside the index.
ExternalInRange(flows) ==
  {k \in 1..Len(flows) : flows[k].date \in IndexDays /\ flows[k].type # "reinvest"}

\* The units the engine holds at the end of day i, 0 before the first day.
UnitsAfter(i) ==
  IF i = 0 THEN Zero ELSE combineSeries(marketValueSeries, cashflowSeries).units[i]

CashflowsBuilt == timelinePhase \in {"cashflows", "done"}

(* C23: for every ledger and day index, the cash-flow series on each index *)
(* day is the sum of the amounts of the ledger's cash flows dated that day *)
(* whose type is not reinvest; reinvest flows and flows dated outside the  *)
(* index contribute nothing, and a day whose only events are reinvested    *)
(* dividends leaves the unit count as it was.                              *)
C23_CashflowIsSumOfExternalFlows ==
  /\ CashflowsBuilt =>
       /\ Len(cashflowSeries) = Len(dateIndex)
       /\ \A i \in 1..Len(dateIndex) :
            cashflowSeries[i] =
              Num(SumOfFlows(symbolLedger.cashflows,
                             ExternalOn(symbolLedger.cashflows, dateIndex[i])))
       /\ SumOfSeries(cashflowSeries) =
            Num(SumOfFlows(symbolLedger.cashflows, ExternalInRange(symbolLedger.cashflows)))
  /\ TimelineDone =>
       \A i \in 1..Len(dateIndex) :
         ExternalOn(symbolLedger.cashflows, dateIndex[i]) = {} =>
           UnitsAfter(i) = UnitsAfter(i - 1)

\* C23 witness: a sale for $45, a dividend of $5 and a reinvestment on the
\* second day of the index: 0, 50, 0.
C23_Witness ==
  /\ CashflowsBuilt
  /\ dateIndex = <<2, 3, 4>>
  /\ Len(symbolLedger.cashflows) = 3
  /\ ReinvestedOn(symbolLedger.cashflows, 3) # {}
  /\ Cardinality(ExternalOn(symbolLedger.cashflows, 3)) = 2
  /\ cashflowSeries = <<Num(0), Num(50), Num(0)>>

\* A purchase before the index and one after it leave the series at 0.
C23_WitnessOutsideIndex ==
  /\ CashflowsBuilt
  /\ dateIndex = <<2, 3, 4>>
  /\ Len(symbolLedger.cashflows) = 2
  /\ symbolLedger.cashflows[1].date = 1
  /\ symbolLedger.cashflows[1].amount = -100
  /\ symbolLedger.cashflows[2].date = 5
  /\ symbolLedger.cashflows[2].amount = -30
  /\ cashflowSeries = <<Num(0), Num(0), Num(0)>>

\* $60 buy 60 units on the first day; the reinvestment of the next day adds a
\* share and no unit.
C23_WitnessReinvestKeepsUnits ==
  /\ TimelineDone
  /\ dateIndex = <<2, 3, 4>>
  /\ ReinvestedOn(symbolLedger.cashflows, 3) # {}
  /\ ExternalOn(symbolLedger.cashflows, 3) = {}
  /\ sharesSeries = <<Num(5), Num(6), Num(6)>>
  /\ cashflowSeries = <<Num(-60), Num(0), Num(0)>>
  /\ UnitsAfter(1) = Num(60)
  /\ UnitsAfter(2) = Num(60)

\* The entries of the history dated index day i, and the close the day shows.
ObservationsOn(i) ==
  {k \in 1..Len(priceSeriesRaw) : priceSeriesRaw[k].date = dateIndex[i]}

Observed(i) == ObservationsOn(i) # {}

ObservedClose(i) == priceSeriesRaw[SetMax(ObservationsOn(i))].close

HasQuote == symbolQuote # NullNum

\* Index day i has a price of its own: a close, or the quote on the last day.
Known(i) == Observed(i) \/ (i = Len(dateIndex) /\ HasQuote)

KnownPrice(i) == IF Observed(i) THEN ObservedClose(i) ELSE symbolQuote

KnownBefore(i) == {j \in 1..(i - 1) : Known(j)}

KnownAfter(i) == {j \in (i + 1)..Len(dateIndex) : Known(j)}

AnyKnown == \E i \in 1..Len(dateIndex) : Known(i)

\* What filling gives a day that has no price of its own.
FilledPrice(i) ==
  IF KnownBefore(i) # {} THEN KnownPrice(SetMax(KnownBefore(i)))
  ELSE IF KnownAfter(i) # {} THEN KnownPrice(SetMin(KnownAfter(i)))
  ELSE NullNum

PricesBuilt == timelinePhase \in {"prices", "cashflows", "done"}

(* C24: after price filling, if the symbol has a historical observation    *)
(* inside the index or a live quote, no index day has a null price: the    *)
(* last day takes the quote only if it had no observation, every other     *)
(* missing day takes the most recent earlier observation, days before the  *)
(* first observation take that one, and observed prices are kept.  With no *)
(* observation and no quote every day stays null and the market value is 0 *)
(* on every day; where a price is known it is price times shares.          *)
C24_PricesFilled ==
  /\ PricesBuilt =>
       /\ Len(priceSeries) = Len(dateIndex)
       /\ \A i \in 1..Len(dateIndex) :
            priceSeries[i] = IF Known(i) THEN KnownPrice(i) ELSE FilledPrice(i)
       /\ AnyKnown => \A i \in 1..Len(dateIndex) : priceSeries[i] # NullNum
       /\ ~AnyKnown => \A i \in 1..Len(dateIndex) : priceSeries[i] = NullNum
  /\ TimelineDone =>
       \A i \in 1..Len(dateIndex) :
         marketValueSeries[i] =
           IF priceSeries[i] = NullNum THEN Zero
           ELSE RatMul(priceSeries[i], sharesSeries[i])

\* C24 witness: the only close is that of the second day and there is a quote:
\* the first day is filled backward, the last takes the quote.
C24_Witness ==
  /\ PricesBuilt
  /\ dateIndex = <<2, 3, 4>>
  /\ priceSeriesRaw = <<PricePoint(3, Num(12))>>
  /\ symbolQuote = Num(15)
  /\ priceSeries = <<Num(12), Num(12), Num(15)>>

\* The last day has a close: the quote is not used.
C24_WitnessQuoteUnused ==
  /\ PricesBuilt
  /\ dateIndex = <<2, 3, 4>>
  /\ priceSeriesRaw = <<PricePoint(4, Num(14))>>
  /\ symbolQuote = Num(15)
  /\ priceSeries = <<Num(14), Num(14), Num(14)>>

\* One close, no quote: the close is carried to the end.
C24_WitnessForward ==
  /\ PricesBuilt
  /\ dateIndex = <<2, 3, 4>>
  /\ priceSeriesRaw = <<PricePoint(2, Num(10))>>
  /\ ~HasQuote
  /\ priceSeries = <<Num(10), Num(10), Num(10)>>

\* The only close is dated before the index and there is no quote: 7 shares
\* are valued at 0 on every day.
C24_WitnessNoPrice ==
  /\ TimelineDone
  /\ dateIndex = <<2, 3, 4>>
  /\ priceSeriesRaw = <<PricePoint(1, Num(9))>>
  /\ ~HasQuote
  /\ priceSeries = <<NullNum, NullNum, NullNum>>
  /\ sharesSeries = <<Num(7), Num(7), Num(7)>>
  /\ marketValueSeries = <<Zero, Zero, Zero>>

---------------------------------------------------------------------------
(* The flow lists handed to computeXirr.                                   *)

\* The list of a symbol's row, and the list of the whole portfolio.
SymbolFlows(sym) == performance.rows[sym].irr_flows

PortfolioFlows == performance.overall.irr_flows

EntriesOnDay(list, day) == {k \in 1..Len(list) : list[k][1] = day}

OneEntryPerDay(list) ==
  \A i \in 1..Len(list) : EntriesOnDay(list, list[i][1]) = {i}

DatesAscend(list) ==
  \A i \in 1..Len(list) : \A j \in 1..Len(list) : i < j => list[i][1] <= list[j][1]

RECURSIVE SumOfEntries(_, _)
SumOfEntries(list, ks) ==
  IF ks = {} THEN Zero
  ELSE RatAdd(list[CHOOSE k \in ks : TRUE][2],
              SumOfEntries(list, ks \ {CHOOSE k \in ks : TRUE}))

\* What lands on a day for a symbol: its external flows of the day and, on the
\* day of the request, its market value.
TerminalOn(day, mv) == IF day = today THEN mv ELSE Zero

SymbolDayAmount(sym, day) ==
  RatAdd(Num(SumOfFlows(model.symbols[sym].cashflows,
                        ExternalOn(model.symbols[sym].cashflows, day))),
         TerminalOn(day, performance.rows[sym].market_value))

RECURSIVE SumExternalOn(_, _)
SumExternalOn(syms, day) ==
  IF syms = {} THEN 0
  ELSE SumOfFlows(model.symbols[CHOOSE sym \in syms : TRUE].cashflows,
                  ExternalOn(model.symbols[CHOOSE sym \in syms : TRUE].cashflows, day))
         + SumExternalOn(syms \ {CHOOSE sym \in syms : TRUE}, day)

PortfolioDayAmount(day) ==
  RatAdd(Num(SumExternalOn(DOMAIN model.symbols, day)),
         TerminalOn(day, performance.overall.market_value))

\* The list of a symbol is aggregated: one entry per day, in date order, each
\* the day's total.
SymbolFlowsAggregated(sym) ==
  /\ OneEntryPerDay(SymbolFlows(sym))
  /\ DatesAscend(SymbolFlows(sym))
  /\ \A i \in 1..Len(SymbolFlows(sym)) :
       SymbolFlows(sym)[i][2] = SymbolDayAmount(sym, SymbolFlows(sym)[i][1])

PortfolioFlowsAggregated ==
  /\ OneEntryPerDay(PortfolioFlows)
  /\ DatesAscend(PortfolioFlows)
  /\ \A i \in 1..Len(PortfolioFlows) :
       PortfolioFlows[i][2] = PortfolioDayAmount(PortfolioFlows[i][1])

(* C25: every flow list handed to computeXirr, per symbol and for the      *)
(* whole portfolio, has at most one entry per calendar day, whose amount   *)
(* is the sum of the external cash flows landing on that day plus, on the  *)
(* evaluation date, the terminal flow equal to the current market value;   *)
(* the entries are in ascending date order.                                *)
C25_FlowListsAggregated ==
  PerfDone =>
    /\ \A sym \in DOMAIN model.symbols : SymbolFlowsAggregated(sym)
    /\ PortfolioFlowsAggregated

\* What holds of the lists of the symbols.
C25_SymbolListsAggregated ==
  PerfDone => \A sym \in DOMAIN model.symbols : SymbolFlowsAggregated(sym)

\* What holds of the list of the portfolio: the dates ascend and the entries
\* of a day add up to the day's total, the terminal flow being an entry of
\* its own.
C25_PortfolioListInOrder ==
  PerfDone =>
    /\ DatesAscend(PortfolioFlows)
    /\ PortfolioFlows[Len(PortfolioFlows)] = <<today, performance.overall.market_value>>
    /\ \A i \in 1..Len(PortfolioFlows) :
         SumOfEntries(PortfolioFlows, EntriesOnDay(PortfolioFlows, PortfolioFlows[i][1]))
           = PortfolioDayAmount(PortfolioFlows[i][1])

\* A second purchase on the day of the request: the portfolio's list has the
\* purchase and the market value as two entries of that day, the symbol's list
\* has their sum.
C25_Divergence ==
  /\ PerfDone
  /\ today = 403
  /\ DOMAIN model.symbols = {SymA}
  /\ PortfolioFlows = <<<<401, Num(-100)>>, <<403, Num(-150)>>, <<403, Num(300)>>>>
  /\ SymbolFlows(SymA) = <<<<401, Num(-100)>>, <<403, Num(150)>>>>

\* The first purchase on the day of the request, at the quoted price: the
\* symbol's list is one entry of 0, the portfolio's list a purchase and a value
\* that cancel.
C25_DivergenceCancels ==
  /\ PerfDone
  /\ today = 403
  /\ DOMAIN model.symbols = {SymA}
  /\ PortfolioFlows = <<<<403, Num(-150)>>, <<403, Num(150)>>>>
  /\ SymbolFlows(SymA) = <<<<403, Zero>>>>

---------------------------------------------------------------------------
(* Requests interleaved with a /portfolio request awaiting its lookup.     *)

WithoutRequest(reqs, i) == SubSeq(reqs, 1, i - 1) \o SubSeq(reqs, i + 1, Len(reqs))

\* The files a step unlinks from a folder.
Removed(before, after) == {f \in DOMAIN before : f \notin DOMAIN after}

\* The file of the folder is one whose rows the request has read.
WasRead(rows, folder, f) == f \in DOMAIN rows /\ rows[f] = folder[f]

\* Request i completes in this step and every file the step unlinks is one
\* it read.
CompletesOnItsOwnFiles(i) ==
  /\ inflight' = WithoutRequest(inflight, i)
  /\ LastResponse(responses').route = inflight[i].route
  /\ \A f \in Removed(uploadsDir, uploadsDir') :
       WasRead(inflight[i].actRows, uploadsDir, f)
  /\ \A f \in Removed(positionsDir, positionsDir') :
       WasRead(inflight[i].posRows, positionsDir, f)

\* A file named *.csv in the folder that the request in flight did not read:
\* it was uploaded while the request awaited the price lookup.
UploadedSince(rows, folder) ==
  {f \in DOMAIN folder : isCsvName(f) /\ ~WasRead(rows, folder, f)}

(* C26: under any interleaving of POST /upload, POST /upload_positions and *)
(* GET /portfolio, the step that completes a /portfolio request deletes    *)
(* only CSV files whose rows that request read: a CSV uploaded while the   *)
(* request awaited the price lookup is still present afterwards.           *)
C26_DeletesOnlyWhatItRead ==
  [][ (Responds /\ ComputedLast(responses')) =>
        \E i \in 1..Len(inflight) : CompletesOnItsOwnFiles(i)
    ]_vars

\* What holds: the completing step unlinks every file named *.csv that is in
\* the two folders at that moment, whoever uploaded it and whenever.
C26_DeletesEveryCsvPresent ==
  [][ (Responds /\ ComputedLast(responses')) =>
        /\ Removed(uploadsDir, uploadsDir') = {f \in DOMAIN uploadsDir : isCsvName(f)}
        /\ Removed(positionsDir, positionsDir') = {f \in DOMAIN positionsDir : isCsvName(f)}
    ]_vars

\* Both files uploaded, /portfolio awaiting its lookup, and a second activity
\* file uploaded meanwhile under another name: the completion of the request
\* will unlink it.
C26_Divergence ==
  /\ Len(inflight) = 1
  /\ inflight[1].route = "/portfolio"
  /\ Len(responses) = 3
  /\ responses[3] = Response("/upload", 200, DetailOk)
  /\ DOMAIN inflight[1].actRows = {<<"a",".","c","s","v">>}
  /\ UploadedSince(inflight[1].actRows, uploadsDir) = {<<"b",".","c","s","v">>}
  /\ clearCsvs(uploadsDir) = <<>>

---------------------------------------------------------------------------
(* The keys of the two lookups.                                            *)

\* The history the provider returned for the symbol, under the key
\* getPriceHistory stored it under.
HistoryStored(sym) ==
  IF cleanSymbol(sym) \in DOMAIN priceHistory THEN priceHistory[cleanSymbol(sym)] ELSE <<>>

\* The timeline of the symbol is the one built from that history.
UsesHistoryStored(sym) ==
  /\ rawSeriesOf(priceHistory, sym) = HistoryStored(sym)
  /\ SeriesOfSymbol(sym).prices =
       priceSeriesOf(HistoryStored(sym), dateIndexOf(model, today), currentPrices[sym])

\* The quote of the symbol is the one Yahoo gave for its cleaned ticker.
QuoteMappedBack(sym) ==
  /\ sym \in DOMAIN currentPrices
  /\ ~QuoteFails(sym) /\ ~quoteThrows(cleanedOf(DOMAIN model.symbols), market)
       => currentPrices[sym] = market[cleanSymbol(sym)].price

HasDot(sym) == DotIndexes(sym) # {}

(* C27: for every symbol of the model, symbols containing '.' included,    *)
(* computePortfolioPerformance reads the historical series under the key   *)
(* getPriceHistory stored it under: whenever the provider returns a        *)
(* non-empty history for a requested symbol, the symbol's timeline uses    *)
(* it, just as getCurrentPrices maps each quote back to the raw symbol.    *)
C27_HistoryReadUnderStoredKey ==
  PerfDone =>
    \A sym \in DOMAIN model.symbols :
      /\ QuoteMappedBack(sym)
      /\ HistoryStored(sym) # <<>> => UsesHistoryStored(sym)

\* What holds: the symbols without a dot use their history, and every symbol,
\* dotted or not, gets the quote of its cleaned ticker.
C27_UndottedSymbolsUseHistory ==
  PerfDone =>
    \A sym \in DOMAIN model.symbols :
      /\ QuoteMappedBack(sym)
      /\ (~HasDot(sym) /\ HistoryStored(sym) # <<>>) => UsesHistoryStored(sym)

\* B.B bought at $10 and closing at 10, 10, 20: the history is stored under
\* B-B, the loop reads B.B and finds nothing, and the timeline shows the quote
\* of 20 on every day, purchase day included.
C27_Divergence ==
  /\ PerfDone
  /\ today = 403
  /\ DOMAIN model.symbols = {SymDot}
  /\ DOMAIN priceHistory = {YahooDot}
  /\ Len(priceHistory[YahooDot]) = 3
  /\ rawSeriesOf(priceHistory, SymDot) = <<>>
  /\ currentPrices[SymDot] = Num(20)
  /\ SeriesOfSymbol(SymDot).prices = <<Num(20), Num(20), Num(20)>>
  /\ RowOf(SymDot).twr_percent = Zero

====
